---------------------------- MODULE Spec2Model ----------------------------
(***************************************************************************)
(* Release decision engine of synctree/releasebot: the ReleaseWorkflow     *)
(* orchestrator, the conventional-commit classifier, the VersionAnalyzer   *)
(* and the AIAnalyzer with its retry loop.                                 *)
(*                                                                         *)
(* JavaScript strings that the code inspects character by character        *)
(* (commit messages, version strings) are sequences of one-character       *)
(* strings.  Strings that are only compared for equality (categories,      *)
(* bump types, strategy names) are TLA+ strings.  Confidence values are    *)
(* fixed-point integers: One stands for 1.0.                               *)
(***************************************************************************)
EXTENDS Integers, Sequences, FiniteSets, TLC

(***************************************************************************)
(* Bounds of the model                                                     *)
(***************************************************************************)
MaxCommits == 2

MaxRetriesBound == 3

(* largest maxRetries of the backoff specification: the cap is reached at  *)
(* the fifth wait                                                          *)
MaxBackoffRetries == 6

(***************************************************************************)
(* Character strings                                                       *)
(***************************************************************************)
UpperLetters ==
  <<"A","B","C","D","E","F","G","H","I","J","K","L","M",
    "N","O","P","Q","R","S","T","U","V","W","X","Y","Z">>

LowerLetters ==
  <<"a","b","c","d","e","f","g","h","i","j","k","l","m",
    "n","o","p","q","r","s","t","u","v","w","x","y","z">>

Digits == <<"0","1","2","3","4","5","6","7","8","9">>

Range(f) == { f[i] : i \in DOMAIN f }

Whitespace == {" ", "\n", "\t", "\r"}

ToLowerChar(c) ==
  IF \E i \in 1..26 : UpperLetters[i] = c
  THEN LowerLetters[CHOOSE i \in 1..26 : UpperLetters[i] = c]
  ELSE c

toLowerCase(s) == [i \in 1..Len(s) |-> ToLowerChar(s[i])]

startsWith(s, p) == Len(s) >= Len(p) /\ SubSeq(s, 1, Len(p)) = p

includes(s, p) == \E i \in 0..(Len(s) - Len(p)) : SubSeq(s, i + 1, i + Len(p)) = p

(* index of the first occurrence of character c in s at or after from, or 0 *)
IndexOfFrom(s, c, from) ==
  IF \E i \in from..Len(s) : s[i] = c
  THEN CHOOSE i \in from..Len(s) : s[i] = c /\ \A j \in from..(i - 1) : s[j] # c
  ELSE 0

(* length of the longest prefix of s, starting at from, made of chars in set *)
RunLen(s, from, set) ==
  IF from > Len(s) \/ s[from] \notin set THEN 0
  ELSE LET stop == { i \in from..Len(s) : s[i] \notin set }
       IN  IF stop = {} THEN Len(s) - from + 1
           ELSE (CHOOSE i \in stop : \A j \in stop : i <= j) - from

trim(s) ==
  LET keep == { i \in 1..Len(s) : s[i] \notin Whitespace }
  IN  IF keep = {} THEN <<>>
      ELSE SubSeq(s, CHOOSE i \in keep : \A j \in keep : i <= j,
                     CHOOSE i \in keep : \A j \in keep : i >= j)

(* literals of the source, spelled out *)
sBREAKING_CHANGE == <<"B","R","E","A","K","I","N","G"," ","C","H","A","N","G","E">>
sBREAKING_CHANGE_COLON == sBREAKING_CHANGE \o <<":">>
sBangColon == <<"!", ":">>
sBreaking == <<"b","r","e","a","k","i","n","g">>
sFeat == <<"f","e","a","t">>
sFeatColon == sFeat \o <<":">>
sFeature == <<"f","e","a","t","u","r","e">>
sFeatureColon == sFeature \o <<":">>
sFix == <<"f","i","x">>
sFixColon == sFix \o <<":">>
sBugfixColon == <<"b","u","g">> \o sFix \o <<":">>
sDocs == <<"d","o","c","s">>
sStyle == <<"s","t","y","l","e">>
sRefactor == <<"r","e","f","a","c","t","o","r">>
sPerf == <<"p","e","r","f">>
sTest == <<"t","e","s","t">>
sBuild == <<"b","u","i","l","d">>
sCi == <<"c","i">>
sChore == <<"c","h","o","r","e">>
sRevert == <<"r","e","v","e","r","t">>

(***************************************************************************)
(* utils/conventionalCommits: the conventional classifier                  *)
(***************************************************************************)
categorizeCommitType(message) ==
  LET lowerMessage == toLowerCase(message)
  IN  CASE startsWith(lowerMessage, sFeat) -> "feat"
        [] startsWith(lowerMessage, sFix) -> "fix"
        [] startsWith(lowerMessage, sDocs) -> "docs"
        [] startsWith(lowerMessage, sStyle) -> "style"
        [] startsWith(lowerMessage, sRefactor) -> "refactor"
        [] startsWith(lowerMessage, sPerf) -> "perf"
        [] startsWith(lowerMessage, sTest) -> "test"
        [] startsWith(lowerMessage, sBuild) -> "build"
        [] startsWith(lowerMessage, sCi) -> "ci"
        [] startsWith(lowerMessage, sChore) -> "chore"
        [] startsWith(lowerMessage, sRevert) -> "revert"
        [] OTHER -> "chore"

(* position of the ")" closing a "(scope)" group that starts right after   *)
(* the first n characters, or 0 when /\([^)]+\)/ does not match there       *)
ScopeClose(message, n) ==
  IF n + 1 <= Len(message) /\ message[n + 1] = "("
  THEN LET close == IndexOfFrom(message, ")", n + 2)
       IN  IF close >= n + 3 THEN close ELSE 0
  ELSE 0

(* an optional string value: def = FALSE is JavaScript's undefined *)
NoString == [def |-> FALSE, val |-> <<>>]

SomeString(s) == [def |-> TRUE, val |-> s]

(* /^[a-z]+\(([^)]+)\):/ *)
extractScope(message) ==
  LET n == RunLen(message, 1, Range(LowerLetters))
      close == ScopeClose(message, n)
  IN  IF n >= 1 /\ close > 0 /\ close + 1 <= Len(message) /\ message[close + 1] = ":"
      THEN SomeString(SubSeq(message, n + 2, close - 1))
      ELSE NoString

(* length of the match of /^[a-z]+(\([^)]+\))?!?:\s*/ at the start, or 0 *)
PrefixMatchLen(message) ==
  LET n == RunLen(message, 1, Range(LowerLetters))
      close == ScopeClose(message, n)
      afterGroup == IF close > 0 THEN close ELSE n
      afterBang == IF afterGroup + 1 <= Len(message) /\ message[afterGroup + 1] = "!"
                   THEN afterGroup + 1 ELSE afterGroup
  IN  IF n >= 1 /\ afterBang + 1 <= Len(message) /\ message[afterBang + 1] = ":"
      THEN afterBang + 1 + RunLen(message, afterBang + 2, Whitespace)
      ELSE 0

cleanCommitMessage(message) ==
  LET cleaned == SubSeq(message, PrefixMatchLen(message) + 1, Len(message))
      nl == IndexOfFrom(cleaned, "\n", 1)
      firstLine == IF nl = 0 THEN cleaned ELSE SubSeq(cleaned, 1, nl - 1)
  IN  trim(firstLine)

parseConventionalCommit(message) ==
  [ type |-> categorizeCommitType(message),
    scope |-> extractScope(message),
    description |-> cleanCommitMessage(message),
    isBreaking |-> includes(message, sBREAKING_CHANGE) \/ includes(message, sBangColon),
    rawMessage |-> message ]

(***************************************************************************)
(* version-analyzer: SemanticVersion, parseVersion, determineVersionBump,  *)
(* incrementVersion                                                        *)
(***************************************************************************)
IdentChars == Range(Digits) \cup Range(LowerLetters) \cup Range(UpperLetters) \cup {"-"}

(* /[0-9A-Za-z-]+(?:\.[0-9A-Za-z-]+)*/ matches the whole of s *)
IsDottedIdent(s) ==
  /\ Len(s) >= 1
  /\ \A i \in 1..Len(s) : s[i] \in IdentChars \cup {"."}
  /\ s[1] # "." /\ s[Len(s)] # "."
  /\ \A i \in 1..(Len(s) - 1) : ~(s[i] = "." /\ s[i + 1] = ".")

DigitValue(c) == (CHOOSE i \in 1..10 : Digits[i] = c) - 1

RECURSIVE parseInt(_)
parseInt(s) ==
  IF Len(s) = 0 THEN 0
  ELSE 10 * parseInt(SubSeq(s, 1, Len(s) - 1)) + DigitValue(s[Len(s)])

RECURSIVE NatToString(_)
NatToString(n) ==
  IF n < 10 THEN <<Digits[n + 1]>>
  ELSE NatToString(n \div 10) \o <<Digits[(n % 10) + 1]>>

NoVersion ==
  [major |-> 0, minor |-> 0, patch |-> 0, prerelease |-> NoString, build |-> NoString]

(* result of parseVersion: ok = FALSE stands for the thrown VersionError *)
VersionThrown == [ok |-> FALSE, version |-> NoVersion]

VersionOk(v) == [ok |-> TRUE, version |-> v]

(* the text after MAJOR.MINOR.PATCH: (?:-(pre))?(?:\+(build))?$ *)
ParseTail(rest) ==
  LET plus == IndexOfFrom(rest, "+", 1)
      pre == IF Len(rest) >= 1 /\ rest[1] = "-"
             THEN SomeString(SubSeq(rest, 2, IF plus = 0 THEN Len(rest) ELSE plus - 1))
             ELSE NoString
      build == IF plus = 0 THEN NoString
               ELSE SomeString(SubSeq(rest, plus + 1, Len(rest)))
      wellFormed ==
        /\ Len(rest) >= 1 => rest[1] \in {"-", "+"}
        /\ pre.def => IsDottedIdent(pre.val)
        /\ build.def => IsDottedIdent(build.val)
  IN  [ok |-> wellFormed, prerelease |-> pre, build |-> build]

parseVersion(versionString) ==
  IF versionString = <<>> THEN VersionThrown
  ELSE
    LET cleanVersion == IF versionString[1] = "v" THEN Tail(versionString)
                        ELSE versionString
        d == Range(Digits)
        n1 == RunLen(cleanVersion, 1, d)
        dot1 == n1 + 1
        n2 == RunLen(cleanVersion, dot1 + 1, d)
        dot2 == dot1 + n2 + 1
        n3 == RunLen(cleanVersion, dot2 + 1, d)
        coreOk ==
          /\ n1 >= 1 /\ dot1 <= Len(cleanVersion) /\ cleanVersion[dot1] = "."
          /\ n2 >= 1 /\ dot2 <= Len(cleanVersion) /\ cleanVersion[dot2] = "."
          /\ n3 >= 1
        tail == ParseTail(SubSeq(cleanVersion, dot2 + n3 + 1, Len(cleanVersion)))
    IN  IF coreOk /\ tail.ok
        THEN VersionOk(
               [ major |-> parseInt(SubSeq(cleanVersion, 1, n1)),
                 minor |-> parseInt(SubSeq(cleanVersion, dot1 + 1, dot1 + n2)),
                 patch |-> parseInt(SubSeq(cleanVersion, dot2 + 1, dot2 + n3)),
                 prerelease |-> tail.prerelease,
                 build |-> tail.build ])
        ELSE VersionThrown

detectBreakingChanges(commits) ==
  \E i \in 1..Len(commits) :
    \/ includes(commits[i].message, sBREAKING_CHANGE_COLON)
    \/ includes(commits[i].message, sBangColon)
    \/ includes(toLowerCase(commits[i].message), sBreaking)

detectNewFeatures(commits) ==
  \E i \in 1..Len(commits) :
    \/ startsWith(commits[i].message, sFeatColon)
    \/ startsWith(commits[i].message, sFeatureColon)
    \/ includes(toLowerCase(commits[i].message), sFeature)

detectBugFixes(commits) ==
  \E i \in 1..Len(commits) :
    \/ startsWith(commits[i].message, sFixColon)
    \/ startsWith(commits[i].message, sBugfixColon)
    \/ includes(toLowerCase(commits[i].message), sFix)

determineVersionBump(commits) ==
  IF detectBreakingChanges(commits) THEN "major"
  ELSE IF detectNewFeatures(commits) THEN "minor"
  ELSE IF detectBugFixes(commits) THEN "patch"
  ELSE IF Len(commits) > 0 THEN "patch" ELSE "none"

(* variant: a bump keeps the prerelease and the build metadata *)
incrementVersion_keepsMetadata(version, bumpType) ==
  CASE bumpType = "none" -> version
    [] bumpType = "major" ->
         [version EXCEPT !.major = @ + 1, !.minor = 0, !.patch = 0]
    [] bumpType = "minor" ->
         [version EXCEPT !.minor = @ + 1, !.patch = 0]
    [] bumpType = "patch" ->
         [version EXCEPT !.patch = @ + 1]

incrementVersion(version, bumpType) ==
  CASE bumpType = "none" -> version
    [] bumpType = "major" ->
         [ major |-> version.major + 1, minor |-> 0, patch |-> 0,
           prerelease |-> NoString, build |-> NoString ]
    [] bumpType = "minor" ->
         [ major |-> version.major, minor |-> version.minor + 1, patch |-> 0,
           prerelease |-> NoString, build |-> NoString ]
    [] bumpType = "patch" ->
         [ major |-> version.major, minor |-> version.minor, patch |-> version.patch + 1,
           prerelease |-> NoString, build |-> NoString ]

(* ReleaseWorkflow.formatVersion *)
formatVersion(version) ==
  NatToString(version.major) \o <<".">> \o NatToString(version.minor) \o <<".">>
    \o NatToString(version.patch)
    \o (IF version.prerelease.def /\ Len(version.prerelease.val) > 0
        THEN <<"-">> \o version.prerelease.val ELSE <<>>)
    \o (IF version.build.def /\ Len(version.build.val) > 0
        THEN <<"+">> \o version.build.val ELSE <<>>)

(***************************************************************************)
(* version-analyzer: formatVersion, incrementPrerelease, promoteToStable,  *)
(* compareVersions                                                         *)
(***************************************************************************)
(* version.prerelease is neither undefined nor '' *)
hasPrerelease(version) == version.prerelease.def /\ version.prerelease.val # <<>>

hasBuild(version) == version.build.def /\ version.build.val # <<>>

(* variant: the build metadata is left out of the text *)
VersionAnalyzer_formatVersion_dropsBuild(version, includePrefix) ==
  LET core == NatToString(version.major) \o <<".">> \o NatToString(version.minor)
                \o <<".">> \o NatToString(version.patch)
      versionString == IF hasPrerelease(version)
                       THEN core \o <<"-">> \o version.prerelease.val ELSE core
  IN  IF includePrefix THEN <<"v">> \o versionString ELSE versionString

(* VersionAnalyzer.formatVersion(version, includePrefix) *)
VersionAnalyzer_formatVersion(version, includePrefix) ==
  LET core == NatToString(version.major) \o <<".">> \o NatToString(version.minor)
                \o <<".">> \o NatToString(version.patch)
      withPre == IF hasPrerelease(version)
                 THEN core \o <<"-">> \o version.prerelease.val ELSE core
      versionString == IF hasBuild(version)
                       THEN withPre \o <<"+">> \o version.build.val ELSE withPre
  IN  IF includePrefix THEN <<"v">> \o versionString ELSE versionString

(* the match of /^([a-zA-Z]+)\.(\d+)$/ on a prerelease *)
PrereleaseMatch(prerelease) ==
  LET letters == Range(LowerLetters) \cup Range(UpperLetters)
      n == RunLen(prerelease, 1, letters)
      digits == RunLen(prerelease, n + 2, Range(Digits))
      matches == /\ n >= 1
                 /\ n + 1 <= Len(prerelease) /\ prerelease[n + 1] = "."
                 /\ digits >= 1 /\ n + 1 + digits = Len(prerelease)
  IN  [ matches |-> matches,
        currentType |-> IF matches THEN SubSeq(prerelease, 1, n) ELSE <<>>,
        number |-> IF matches THEN parseInt(SubSeq(prerelease, n + 2, Len(prerelease)))
                   ELSE 0 ]

(* variant: a prerelease of another label keeps counting *)
incrementPrerelease_ignoresLabel(version, prereleaseType) ==
  IF ~hasPrerelease(version)
  THEN [version EXCEPT !.patch = @ + 1,
                       !.prerelease = SomeString(prereleaseType \o <<".", "1">>),
                       !.build = NoString]
  ELSE LET m == PrereleaseMatch(version.prerelease.val)
       IN  [version EXCEPT
              !.prerelease =
                 IF m.matches
                 THEN SomeString(prereleaseType \o <<".">> \o NatToString(m.number + 1))
                 ELSE SomeString(prereleaseType \o <<".", "1">>),
              !.build = NoString]

incrementPrerelease(version, prereleaseType) ==
  IF ~hasPrerelease(version)
  THEN [version EXCEPT !.patch = @ + 1,
                       !.prerelease = SomeString(prereleaseType \o <<".", "1">>),
                       !.build = NoString]
  ELSE LET m == PrereleaseMatch(version.prerelease.val)
       IN  [version EXCEPT
              !.prerelease =
                 IF m.matches /\ m.currentType = prereleaseType
                 THEN SomeString(prereleaseType \o <<".">> \o NatToString(m.number + 1))
                 ELSE SomeString(prereleaseType \o <<".", "1">>),
              !.build = NoString]

(* variant: a stable version is returned as it is *)
promoteToStable_acceptsStable(version) ==
  VersionOk([ major |-> version.major, minor |-> version.minor,
              patch |-> version.patch, prerelease |-> NoString, build |-> NoString ])

(* ok = FALSE stands for the thrown VersionError *)
promoteToStable(version) ==
  IF ~hasPrerelease(version) THEN VersionThrown
  ELSE VersionOk([ major |-> version.major, minor |-> version.minor,
                   patch |-> version.patch, prerelease |-> NoString,
                   build |-> NoString ])

(* a client of VersionAnalyzer: heap holds its SemanticVersion objects, arg *)
(* and ret are places in heap (ret = 0: nothing returned), thrown tells a  *)
(* VersionError, cmp the results of compareVersions on a, b and c, where a *)
(* is heap[arg]                                                            *)
NoCmp == [ab |-> 0, ba |-> 0, bc |-> 0, ac |-> 0]

NoVer ==
  [ pc |-> "none", op |-> "", heap |-> <<>>, arg |-> 0, ret |-> 0,
    thrown |-> FALSE, text |-> <<>>, includePrefix |-> FALSE, bumpType |-> "",
    prereleaseType |-> <<>>, b |-> NoVersion, c |-> NoVersion, cmp |-> NoCmp,
    collation |-> "" ]

(* the characters of a prerelease in the order of their code units *)
CodeUnitOrder == <<"-", ".">> \o Digits \o UpperLetters \o LowerLetters

IndexIn(order, c) == CHOOSE i \in 1..Len(order) : order[i] = c

(* the collation of the runtime's ICU: punctuation, digits, letters, a     *)
(* letter's case counting only between strings that are otherwise equal    *)
PrimaryOrder == <<"-", ".">> \o Digits \o LowerLetters

primaryKeys(s) == [i \in 1..Len(s) |-> IndexIn(PrimaryOrder, ToLowerChar(s[i]))]

tertiaryKeys(s) == [i \in 1..Len(s) |-> IF s[i] \in Range(UpperLetters) THEN 1 ELSE 0]

codeUnits(s) == [i \in 1..Len(s) |-> IndexIn(CodeUnitOrder, s[i])]

(* lexicographic comparison of two sequences of numbers: -1, 0 or 1 *)
compareKeys(x, y) ==
  LET common == IF Len(x) <= Len(y) THEN Len(x) ELSE Len(y)
      diff == { i \in 1..common : x[i] # y[i] }
      first == CHOOSE i \in diff : \A j \in diff : i <= j
  IN  IF diff # {} THEN (IF x[first] < y[first] THEN 0 - 1 ELSE 1)
      ELSE IF Len(x) < Len(y) THEN 0 - 1
      ELSE IF Len(x) > Len(y) THEN 1
      ELSE 0

(* String.prototype.localeCompare: the runtime compares by its ICU         *)
(* collation or, built without it, by code units                           *)
localeCompare(a, b, collation) ==
  IF collation = "codeunit" THEN compareKeys(codeUnits(a), codeUnits(b))
  ELSE LET primary == compareKeys(primaryKeys(a), primaryKeys(b))
       IN  IF primary # 0 THEN primary
           ELSE compareKeys(tertiaryKeys(a), tertiaryKeys(b))

(* variant: a stable version ranks below a prerelease of its core *)
compareVersions_stableBelow(a, b, collation) ==
  IF a.major # b.major THEN a.major - b.major
  ELSE IF a.minor # b.minor THEN a.minor - b.minor
  ELSE IF a.patch # b.patch THEN a.patch - b.patch
  ELSE IF ~hasPrerelease(a) /\ ~hasPrerelease(b) THEN 0
  ELSE IF ~hasPrerelease(a) /\ hasPrerelease(b) THEN 0 - 1
  ELSE IF hasPrerelease(a) /\ ~hasPrerelease(b) THEN 1
  ELSE localeCompare(a.prerelease.val, b.prerelease.val, collation)

compareVersions(a, b, collation) ==
  IF a.major # b.major THEN a.major - b.major
  ELSE IF a.minor # b.minor THEN a.minor - b.minor
  ELSE IF a.patch # b.patch THEN a.patch - b.patch
  ELSE IF ~hasPrerelease(a) /\ ~hasPrerelease(b) THEN 0
  ELSE IF ~hasPrerelease(a) /\ hasPrerelease(b) THEN 1
  ELSE IF hasPrerelease(a) /\ ~hasPrerelease(b) THEN 0 - 1
  ELSE localeCompare(a.prerelease.val, b.prerelease.val, collation)

(***************************************************************************)
(* ai-analyzer: errors, provider outcomes, response parsing, confidence    *)
(***************************************************************************)
One == 100 * 100

NoNumber == [def |-> FALSE, val |-> 0]

SomeNumber(n) == [def |-> TRUE, val |-> n]

(* NaN, as parseFloat returns it for a text that is no number: a value     *)
(* apart from every number of the model; every comparison with it is false *)
NaN == One * One

IsNaN(x) == x = NaN

DefaultMaxRetries == 3

DefaultRetryDelay == 1000

MaxDelayFactor == 8

(* default of the constructor parameter `retryable` of AIAnalysisError *)
DefaultRetryable == TRUE

NoCause == [def |-> FALSE, message |-> "", id |-> 0]

CauseOf(e) == [def |-> TRUE, message |-> e.message, id |-> e.id]

(* id tells apart error objects created by different attempts *)
AIAnalysisError(message, cause, retryable, id) ==
  [name |-> "AIAnalysisError", message |-> message, cause |-> cause,
   retryable |-> retryable, id |-> id]

NoError == [name |-> "", message |-> "", cause |-> NoCause, retryable |-> FALSE, id |-> 0]

(* JSON values as JSON.parse returns them *)
JString(s) == [type |-> "string", str |-> s, num |-> 0]

JNumber(n) == [type |-> "number", str |-> "", num |-> n]

JUndefined == [type |-> "undefined", str |-> "", num |-> 0]

JText(chars) == [type |-> "string", text |-> chars]

JBoolean(b) == [type |-> "boolean", val |-> b]

JNoBoolean == [type |-> "undefined", val |-> FALSE]

JArray(items) == [type |-> "array", items |-> items]

JNoArray == [type |-> "undefined", items |-> <<>>]

JChange(category, description, commitSha, isBreaking) ==
  [ type |-> "object", category |-> category, description |-> description,
    commitSha |-> commitSha, author |-> JUndefined, isBreaking |-> isBreaking,
    scope |-> NoString, confidence |-> JUndefined ]

(* the text of a provider response: json says whether JSON.parse accepts it *)
JObject(versionBump, confidence, reasoning, changes) ==
  [ json |-> TRUE, root |-> "object", versionBump |-> versionBump,
    confidence |-> confidence, reasoning |-> reasoning, changes |-> changes ]

(* new AIAnalyzer(config): the retry configuration *)
RetryConfig(maxRetries, retryDelay) ==
  [maxRetries |-> maxRetries, baseDelay |-> retryDelay,
   maxDelay |-> retryDelay * MaxDelayFactor]

(* a provider outcome: an HTTP error status, a transport error without     *)
(* status, or a completion whose content is empty or a text                *)
IsRetryableStatus(status) == status = 429 \/ status >= 500

(* callOpenAI: ok with the content, or the AIAnalysisError it throws *)
callOpenAI(outcome, attempt) ==
  CASE outcome.kind = "completion" ->
         IF outcome.empty
         THEN [ok |-> FALSE, content |-> outcome.text,
               error |-> AIAnalysisError("Empty response from OpenAI", NoCause,
                                         DefaultRetryable, attempt)]
         ELSE [ok |-> TRUE, content |-> outcome.text, error |-> NoError]
    [] outcome.kind = "status" ->
         [ok |-> FALSE, content |-> outcome.text,
          error |-> AIAnalysisError(
                      "OpenAI API error (" \o ToString(outcome.status) \o ")",
                      [def |-> TRUE, message |-> "http", id |-> attempt],
                      IsRetryableStatus(outcome.status), attempt)]
    [] outcome.kind = "transport" ->
         [ok |-> FALSE, content |-> outcome.text,
          error |-> AIAnalysisError(
                      "Failed to call OpenAI",
                      [def |-> TRUE, message |-> "transport", id |-> attempt],
                      TRUE, attempt)]

isValidChange(c) ==
  c.type = "object" /\ c.category.type = "string" /\ c.description.type = "string"

isValidParsedResponse(parsed) ==
  /\ parsed.root = "object"
  /\ parsed.versionBump.type = "string"
  /\ parsed.confidence.type = "number"
  /\ parsed.reasoning.type = "array"
  /\ parsed.changes.type = "array"
  /\ \A i \in 1..Len(parsed.reasoning.items) : parsed.reasoning.items[i].type = "string"
  /\ \A i \in 1..Len(parsed.changes.items) : isValidChange(parsed.changes.items[i])

(* the ChangelogEntry built from one element of `changes` *)
MapChange(change) ==
  [ category |-> change.category.str,
    description |-> change.description.text,
    commitSha |-> IF change.commitSha.type = "string" THEN change.commitSha.str ELSE "",
    author |-> IF change.author.type = "string" THEN change.author.str ELSE "Unknown",
    isBreaking |-> IF change.isBreaking.type = "boolean" THEN change.isBreaking.val
                   ELSE FALSE,
    scope |-> change.scope,
    confidence |-> IF change.confidence.type = "number" THEN change.confidence.num
                   ELSE One \div 2,
    hasIssues |-> TRUE ]

NoParsed ==
  [versionBump |-> "", confidence |-> 0, reasoning |-> <<>>, changes |-> <<>>]

ParseThrows(message, retryable) ==
  [ok |-> FALSE, value |-> NoParsed,
   error |-> AIAnalysisError(message, NoCause, retryable, 0)]

parseAIResponse(content) ==
  IF ~content.json
  THEN [ok |-> FALSE, value |-> NoParsed,
        error |-> AIAnalysisError("Failed to parse AI response",
                                  [def |-> TRUE, message |-> "SyntaxError", id |-> 0],
                                  FALSE, 0)]
  ELSE IF ~isValidParsedResponse(content)
  THEN ParseThrows("Invalid response format from AI", DefaultRetryable)
  ELSE IF content.versionBump.str \notin {"major", "minor", "patch"}
  THEN ParseThrows("Invalid or missing versionBump in AI response", DefaultRetryable)
  ELSE IF content.confidence.num < 0 \/ content.confidence.num > One
  THEN ParseThrows("Invalid confidence score in AI response", DefaultRetryable)
  ELSE IF \E i \in 1..Len(content.changes.items) :
            \/ content.changes.items[i].category.str = ""
            \/ content.changes.items[i].description.text = <<>>
  THEN ParseThrows("Invalid change entry", DefaultRetryable)
  ELSE [ok |-> TRUE, error |-> NoError,
        value |-> [ versionBump |-> content.versionBump.str,
                    confidence |-> content.confidence.num,
                    reasoning |-> [i \in 1..Len(content.reasoning.items) |->
                                     content.reasoning.items[i].str],
                    changes |-> [i \in 1..Len(content.changes.items) |->
                                   MapChange(content.changes.items[i])] ]]

Min(a, b) == IF a <= b THEN a ELSE b

Max(a, b) == IF a >= b THEN a ELSE b

(* variant: the ratios 0.5 and 2 themselves are penalised *)
calculateConfidence_ratioExclusive(parsedResult, commits) ==
  LET c0 == parsedResult.confidence
      c1 == IF Len(parsedResult.reasoning) = 0 THEN (c0 * 8) \div 10 ELSE c0
      c2 == IF Len(parsedResult.changes) = 0 /\ Len(commits) > 0
            THEN (c1 * 7) \div 10 ELSE c1
      ratioOff == IF Len(commits) > 0
                  THEN \/ 2 * Len(parsedResult.changes) <= Len(commits)
                       \/ Len(parsedResult.changes) >= 2 * Len(commits)
                  ELSE TRUE
      c3 == IF ratioOff THEN (c2 * 9) \div 10 ELSE c2
  IN  Max(0, Min(One, c3))

(* confidence values are multiples of One / 10, so the products are exact *)
calculateConfidence(parsedResult, commits) ==
  LET c0 == parsedResult.confidence
      c1 == IF Len(parsedResult.reasoning) = 0 THEN (c0 * 8) \div 10 ELSE c0
      c2 == IF Len(parsedResult.changes) = 0 /\ Len(commits) > 0
            THEN (c1 * 7) \div 10 ELSE c1
      (* changes / commits < 0.5 or > 2, with 0 for an empty commit list *)
      ratioOff == IF Len(commits) > 0
                  THEN \/ 2 * Len(parsedResult.changes) < Len(commits)
                       \/ Len(parsedResult.changes) > 2 * Len(commits)
                  ELSE TRUE
      c3 == IF ratioOff THEN (c2 * 9) \div 10 ELSE c2
  IN  Max(0, Min(One, c3))

(***************************************************************************)
(* executeWithRetry and analyze                                            *)
(***************************************************************************)
(* variant: the delay keeps doubling, without the cap *)
delayFor_uncapped(attempt, rc) == rc.baseDelay * (2 ^ (attempt - 1))

delayFor(attempt, rc) == Min(rc.baseDelay * (2 ^ (attempt - 1)), rc.maxDelay)

(* the loop is left, after a failed attempt, once the attempts are used up *)
attemptsExhausted(attempt, rc) == attempt = rc.maxRetries

(* variant: every failure is retried, whatever its retryable flag *)
afterFailure_ignoresFlag(error, attempt, rc) ==
  IF attempt = rc.maxRetries THEN "break" ELSE "wait"

(* the catch block of executeWithRetry after a failed attempt:             *)
(* "throw" rethrows the error, "break" leaves the loop, "wait" backs off   *)
afterFailure(error, attempt, rc) ==
  IF error.name = "AIAnalysisError" /\ ~error.retryable THEN "throw"
  ELSE IF attemptsExhausted(attempt, rc) THEN "break"
  ELSE "wait"

(* the terminal error thrown below the loop *)
exhaustedError(lastError, hasLast, rc) ==
  AIAnalysisError("Operation failed after " \o ToString(rc.maxRetries) \o " attempts: "
                     \o (IF hasLast THEN lastError.message ELSE "undefined"),
                  IF hasLast THEN CauseOf(lastError) ELSE NoCause, FALSE, 0)

NoAnalysis ==
  [versionBump |-> "", confidence |-> 0, reasoning |-> <<>>, changes |-> <<>>,
   strategy |-> ""]

(* analyze, from the provider's content on: parse, score, build the result *)
finishAnalysis(content, commits) ==
  LET parsed == parseAIResponse(content)
  IN  IF parsed.ok
      THEN [ok |-> TRUE, error |-> NoError,
            result |-> [ versionBump |-> parsed.value.versionBump,
                         confidence |-> calculateConfidence(parsed.value, commits),
                         reasoning |-> parsed.value.reasoning,
                         changes |-> parsed.value.changes,
                         strategy |-> "ai" ]]
      ELSE [ok |-> FALSE, error |-> parsed.error, result |-> NoAnalysis]

(* one call of analyze: pc is "idle", "create" (awaiting the provider),    *)
(* "wait" (awaiting the backoff timer), "resolved" or "rejected";          *)
(* outcomes and delays record the provider outcomes and the waits so far   *)
IdleCall ==
  [pc |-> "idle", commits |-> <<>>, attempt |-> 0, lastError |-> NoError,
   result |-> NoAnalysis, error |-> NoError, outcomes |-> <<>>, delays |-> <<>>]

(* variant: the commit list is not validated before the provider is called *)
startAnalyze_skipsValidation(commits, rc) ==
  IF 1 <= rc.maxRetries
  THEN [IdleCall EXCEPT !.pc = "create", !.commits = commits, !.attempt = 1]
  ELSE [IdleCall EXCEPT !.pc = "rejected", !.commits = commits,
          !.error = exhaustedError(NoError, FALSE, rc)]

(* analyze up to its first suspension *)
startAnalyze(commits, rc) ==
  IF Len(commits) = 0
  THEN [IdleCall EXCEPT !.pc = "rejected", !.commits = commits,
          !.error = AIAnalysisError("No commits found in git diff", NoCause,
                                    DefaultRetryable, 0)]
  ELSE IF 1 <= rc.maxRetries
  THEN [IdleCall EXCEPT !.pc = "create", !.commits = commits, !.attempt = 1]
  ELSE [IdleCall EXCEPT !.pc = "rejected", !.commits = commits,
          !.error = exhaustedError(NoError, FALSE, rc)]

(* variant: lastError keeps the error of the first failed attempt *)
onProviderOutcome_keepsFirstError(call, outcome, rc) ==
  LET r == callOpenAI(outcome, call.attempt)
      seen == [call EXCEPT !.outcomes = Append(@, outcome)]
  IN  IF r.ok
      THEN LET fin == finishAnalysis(r.content, call.commits)
           IN  [seen EXCEPT !.pc = IF fin.ok THEN "resolved" ELSE "rejected",
                            !.result = fin.result, !.error = fin.error]
      ELSE LET decision == afterFailure(r.error, call.attempt, rc)
               kept == IF call.attempt = 1 THEN r.error ELSE call.lastError
           IN  CASE decision = "throw" ->
                      [seen EXCEPT !.pc = "rejected", !.lastError = r.error,
                                   !.error = r.error]
                 [] decision = "break" ->
                      [seen EXCEPT !.pc = "rejected", !.lastError = kept,
                                   !.error = exhaustedError(kept, TRUE, rc)]
                 [] decision = "wait" ->
                      [seen EXCEPT !.pc = "wait", !.lastError = kept,
                                   !.delays = Append(@, delayFor(call.attempt, rc))]

(* the call after the provider answered its pending request with outcome *)
onProviderOutcome(call, outcome, rc) ==
  LET r == callOpenAI(outcome, call.attempt)
      seen == [call EXCEPT !.outcomes = Append(@, outcome)]
  IN  IF r.ok
      THEN LET fin == finishAnalysis(r.content, call.commits)
           IN  [seen EXCEPT !.pc = IF fin.ok THEN "resolved" ELSE "rejected",
                            !.result = fin.result, !.error = fin.error]
      ELSE LET decision == afterFailure(r.error, call.attempt, rc)
           IN  CASE decision = "throw" ->
                      [seen EXCEPT !.pc = "rejected", !.lastError = r.error,
                                   !.error = r.error]
                 [] decision = "break" ->
                      [seen EXCEPT !.pc = "rejected", !.lastError = r.error,
                                   !.error = exhaustedError(r.error, TRUE, rc)]
                 [] decision = "wait" ->
                      [seen EXCEPT !.pc = "wait", !.lastError = r.error,
                                   !.delays = Append(@, delayFor(call.attempt, rc))]

(***************************************************************************)
(* ReleaseWorkflow: the data of one run                                    *)
(***************************************************************************)
createBasicChangelogEntries(commits) ==
  [ i \in 1..Len(commits) |->
      LET parsed == parseConventionalCommit(commits[i].message)
      IN  [ category |-> parsed.type,
            description |-> parsed.description,
            isBreaking |-> parsed.isBreaking,
            author |-> commits[i].author,
            commitSha |-> commits[i].sha,
            confidence |-> One,
            scope |-> parsed.scope,
            hasIssues |-> FALSE ] ]

(* variant: every strategy consults the AI *)
shouldUseAI_always(strategy) == strategy \in {"conventional", "ai", "hybrid"}

shouldUseAI(strategy) == strategy = "ai" \/ strategy = "hybrid"

(* analyzeWithAI without AI *)
conventionalData(commits, versionBump) ==
  [ entries |-> createBasicChangelogEntries(commits),
    aiConfidence |-> NoNumber,
    reasoning |-> <<"Using conventional commits analysis">>,
    breakingChanges |-> versionBump = "major" ]

(* variant: the threshold itself is not enough *)
aiConfidenceOk_strict(confidence, threshold) ==
  ~IsNaN(threshold) /\ confidence > threshold

aiConfidenceOk(confidence, threshold) ==
  ~IsNaN(threshold) /\ confidence >= threshold

(* variant: the threshold applies under every AI strategy *)
fallsBackOnLowConfidence_anyStrategy(strategy, confidenceOk) == ~confidenceOk

(* the guard of the low-confidence branch of analyzeWithAI *)
fallsBackOnLowConfidence(strategy, confidenceOk) == strategy = "hybrid" /\ ~confidenceOk

(* variant: the AI's reasoning is replaced by the note *)
lowConfidenceData_dropsReasoning(analysis, commits, versionBump) ==
  [ entries |-> createBasicChangelogEntries(commits),
    aiConfidence |-> SomeNumber(analysis.confidence),
    reasoning |-> <<"Confidence below threshold, using conventional analysis">>,
    breakingChanges |-> versionBump = "major" ]

lowConfidenceData(analysis, commits, versionBump) ==
  [ entries |-> createBasicChangelogEntries(commits),
    aiConfidence |-> SomeNumber(analysis.confidence),
    reasoning |-> analysis.reasoning
                    \o <<"Confidence below threshold, using conventional analysis">>,
    breakingChanges |-> versionBump = "major" ]

(* variant: the flag is taken from the AI's bump *)
acceptedData_breakingFromBump(analysis) ==
  [ entries |-> analysis.changes,
    aiConfidence |-> SomeNumber(analysis.confidence),
    reasoning |-> analysis.reasoning,
    breakingChanges |-> analysis.versionBump = "major" ]

acceptedData(analysis) ==
  [ entries |-> analysis.changes,
    aiConfidence |-> SomeNumber(analysis.confidence),
    reasoning |-> analysis.reasoning,
    breakingChanges |-> \E i \in 1..Len(analysis.changes) : analysis.changes[i].isBreaking ]

(* variant: the catch block falls back under every AI strategy *)
catchFallsBack_always(strategy) == shouldUseAI(strategy)

(* the catch block of analyzeWithAI falls back only under hybrid *)
catchFallsBack(strategy) == strategy = "hybrid"

(* variant: the failed AI attempt reports no confidence *)
errorFallbackData_absentConfidence(commits, versionBump) ==
  [ entries |-> createBasicChangelogEntries(commits),
    aiConfidence |-> NoNumber,
    reasoning |-> <<"AI analysis failed, using conventional fallback">>,
    breakingChanges |-> versionBump = "major" ]

errorFallbackData(commits, versionBump) ==
  [ entries |-> createBasicChangelogEntries(commits),
    aiConfidence |-> SomeNumber(0),
    reasoning |-> <<"AI analysis failed, using conventional fallback">>,
    breakingChanges |-> versionBump = "major" ]

NoChangeData ==
  [entries |-> <<>>, aiConfidence |-> NoNumber, reasoning |-> <<>>,
   breakingChanges |-> FALSE]

NoGitData == [def |-> FALSE, commits |-> <<>>, commitCount |-> 0]

NoVersionData ==
  [def |-> FALSE, currentVersion |-> NoVersion, newVersion |-> NoVersion,
   versionBump |-> ""]

NoChangelogData == [def |-> FALSE, version |-> <<>>, entryCount |-> 0]

NoResult ==
  [ returned |-> FALSE, success |-> FALSE, version |-> <<>>, releaseBranch |-> <<>>,
    versionBump |-> "", analysisStrategy |-> "", aiConfidence |-> NoNumber,
    reasoning |-> <<>>, commitCount |-> 0, breakingChanges |-> FALSE,
    changelogData |-> NoChangelogData ]

(* variant: the catch block reports the message of a non-WorkflowError *)
failureResult_unknownError(strategy, message) ==
  [ returned |-> TRUE, success |-> FALSE,
    version |-> <<"0", ".", "0", ".", "0">>, releaseBranch |-> <<>>,
    versionBump |-> "patch", analysisStrategy |-> strategy,
    aiConfidence |-> NoNumber, reasoning |-> <<"Unknown workflow error">>,
    commitCount |-> 0, breakingChanges |-> FALSE, changelogData |-> NoChangelogData ]

(* the result execute returns from its catch block *)
failureResult(strategy, message) ==
  [ returned |-> TRUE, success |-> FALSE,
    version |-> <<"0", ".", "0", ".", "0">>, releaseBranch |-> <<>>,
    versionBump |-> "patch", analysisStrategy |-> strategy,
    aiConfidence |-> NoNumber, reasoning |-> <<message>>, commitCount |-> 0,
    breakingChanges |-> FALSE, changelogData |-> NoChangelogData ]

(* the result execute returns after step 5 *)
successResult(strategy, git, version, change, clData, branch) ==
  [ returned |-> TRUE, success |-> TRUE,
    version |-> formatVersion(version.newVersion), releaseBranch |-> branch,
    versionBump |-> version.versionBump, analysisStrategy |-> strategy,
    aiConfidence |-> change.aiConfidence, reasoning |-> change.reasoning,
    commitCount |-> git.commitCount, breakingChanges |-> change.breakingChanges,
    changelogData |-> clData ]

sRelease == <<"r", "e", "l", "e", "a", "s", "e", "/">>

(***************************************************************************)
(* Inputs of the model                                                     *)
(***************************************************************************)
mFeat == sFeatColon \o <<" ", "a", "d", "d", " ", "X">>

mFix == sFixColon \o <<" ", "b", "u", "g", " ", "Y">>

mBreaking == sFix \o sBangColon \o <<" ", "d", "r", "o", "p", " ", "Z">>

Messages == {mFeat, mFix, mBreaking}

RECURSIVE SeqsUpTo(_, _)
SeqsUpTo(S, n) ==
  IF n = 0 THEN {<<>>}
  ELSE LET shorter == SeqsUpTo(S, n - 1)
       IN  shorter \cup { Append(q, x) : q \in shorter, x \in S }

CommitsOf(messages) ==
  [ i \in 1..Len(messages) |->
      [sha |-> "sha" \o ToString(i), message |-> messages[i], author |-> "Test Author"] ]

Diffs == { CommitsOf(m) : m \in SeqsUpTo(Messages, MaxCommits) }

sPackageJson ==
  <<".", "/", "p", "a", "c", "k", "a", "g", "e", ".", "j", "s", "o", "n">>

PackagePaths == { sPackageJson, <<"1", ".", "2", ".", "3">> }

Thresholds == { (One * 8) \div 10, (One * 504) \div 1000 }

Strategies == {"conventional", "ai", "hybrid"}

Statuses == {401, 429, 499, 500}

chFeat ==
  JChange(JString("feat"), JText(<<"A">>), JString("sha1"), JBoolean(FALSE))

chFix == JChange(JString("fix"), JText(<<"B">>), JUndefined, JNoBoolean)

chBreaking ==
  JChange(JString("breaking"), JText(<<"C">>), JString("sha1"), JBoolean(TRUE))

(* a change whose category is a string of the provider's own *)
chOther ==
  JChange(JString("enhancement"), JText(<<"D">>), JUndefined, JNoBoolean)

ValidTexts ==
  { JObject(JString(b), JNumber(c), JArray(r), JArray(ch)) :
      b \in {"major", "patch"},
      c \in {One \div 2, (One * 8) \div 10, One},
      r \in {<<>>, <<JString("r1"), JString("r2")>>},
      ch \in {<<>>, <<chFeat>>, <<chFeat, chOther>>, <<chFeat, chFix, chBreaking>>} }

BaseText ==
  JObject(JString("minor"), JNumber(One), JArray(<<JString("r1")>>), JArray(<<chFeat>>))

InvalidTexts ==
  { [BaseText EXCEPT !.json = FALSE],
    [BaseText EXCEPT !.root = "null"],
    [BaseText EXCEPT !.changes = JNoArray],
    [BaseText EXCEPT !.versionBump = JString("none")],
    [BaseText EXCEPT !.confidence = JNumber((One * 3) \div 2)],
    [BaseText EXCEPT !.reasoning = JArray(<<JNumber(1)>>)],
    [BaseText EXCEPT !.changes =
       JArray(<<JChange(JString(""), JText(<<"A">>), JUndefined, JNoBoolean)>>)] }

Texts == ValidTexts \cup InvalidTexts

ProviderOutcomes ==
  { [kind |-> "status", status |-> st, empty |-> FALSE, text |-> BaseText] :
      st \in Statuses }
  \cup { [kind |-> "transport", status |-> 0, empty |-> FALSE, text |-> BaseText] }
  \cup { [kind |-> "completion", status |-> 200, empty |-> TRUE, text |-> BaseText] }
  \cup { [kind |-> "completion", status |-> 200, empty |-> FALSE, text |-> t] :
           t \in Texts }

CallIds == {1, 2}

(***************************************************************************)
(* git-operations: generateDiff, validateBranches, resolveBranchRef        *)
(***************************************************************************)
Origin(branch) == "origin/" \o branch

(* the repository and the commands run so far: refs are the refs that      *)
(* rev-parse --verify finds, remote the branches a fetch from origin       *)
(* finds, started tells whether any git command was executed              *)
NoGit ==
  [pc |-> "none", started |-> FALSE, refs |-> {}, remote |-> {}, log |-> <<>>,
   baseRef |-> "", featureRef |-> "", error |-> ""]

(* executeGitCommand: the command is run and recorded with its outcome *)
executeGitCommand(st, cmd, ref, other, ok) ==
  [st EXCEPT !.started = TRUE,
             !.log = Append(@, [cmd |-> cmd, ref |-> ref, other |-> other, ok |-> ok])]

(* git rev-parse --verify ref *)
revParseVerify(st, ref) ==
  [st |-> executeGitCommand(st, "rev-parse --verify", ref, "", ref \in st.refs),
   ok |-> ref \in st.refs]

(* git fetch origin branch:branch creates the local branch when it succeeds *)
fetchBranch(st, branch) ==
  LET ok == branch \in st.remote
      ran == executeGitCommand(st, "fetch origin", branch, branch, ok)
  IN  [st |-> IF ok THEN [ran EXCEPT !.refs = @ \cup {branch}] ELSE ran, ok |-> ok]

(* the body of the loop of validateBranches for one branch *)
validateBranch(st, branch) ==
  LET local == revParseVerify(st, branch)
  IN  IF local.ok THEN local
      ELSE LET tracking == revParseVerify(local.st, Origin(branch))
           IN  IF tracking.ok THEN tracking
               ELSE fetchBranch(tracking.st, branch)

RECURSIVE validateBranches(_, _)
validateBranches(st, branches) ==
  IF branches = <<>> THEN [st |-> st, ok |-> TRUE, error |-> ""]
  ELSE LET first == validateBranch(st, Head(branches))
       IN  IF first.ok THEN validateBranches(first.st, Tail(branches))
           ELSE [st |-> first.st, ok |-> FALSE,
                 error |-> "Branch '" \o Head(branches)
                             \o "' does not exist locally or on remote"]

(* variant: the local name is returned without any lookup *)
resolveBranchRef_localOnly(st, branch) == [st |-> st, ref |-> branch]

resolveBranchRef(st, branch) ==
  LET local == revParseVerify(st, branch)
  IN  IF local.ok THEN [st |-> local.st, ref |-> branch]
      ELSE LET tracking == revParseVerify(local.st, Origin(branch))
           IN  [st |-> tracking.st,
                ref |-> IF tracking.ok THEN Origin(branch) ELSE branch]

(* generateDiff: logOk and diffOk tell whether git log and git diff        *)
(* --numstat succeed; the commands run for the single commits of the log   *)
(* output are not recorded                                                 *)
generateDiff(st, baseBranch, featureBranch, logOk, diffOk) ==
  LET valid == validateBranches(st, <<baseBranch, featureBranch>>)
      base == resolveBranchRef(valid.st, baseBranch)
      feature == resolveBranchRef(base.st, featureBranch)
      resolved == [feature.st EXCEPT !.baseRef = base.ref, !.featureRef = feature.ref]
      logged == executeGitCommand(resolved, "log", base.ref, feature.ref, logOk)
      diffed == executeGitCommand(logged, "diff --numstat", base.ref, feature.ref, diffOk)
  IN  IF ~valid.ok
      THEN [valid.st EXCEPT !.pc = "failed",
                            !.error = "Failed to generate diff: " \o valid.error]
      ELSE IF ~logOk
      THEN [logged EXCEPT !.pc = "failed",
                          !.error = "Failed to generate diff: Failed to get commits"]
      ELSE IF ~diffOk
      THEN [diffed EXCEPT !.pc = "failed",
                          !.error = "Failed to generate diff: Failed to get file changes"]
      ELSE [diffed EXCEPT !.pc = "done"]

(***************************************************************************)
(* main: the action inputs, validateInputs, the workflow constructor       *)
(***************************************************************************)
NoInputs ==
  [ featureBranch |-> "", githubToken |-> "", versioningStrategy |-> "",
    aiProvider |-> "", openaiApiKey |-> "", anthropicApiKey |-> "",
    aiConfidenceThreshold |-> "", changelogFormat |-> "", changelogTemplate |-> "",
    skipChangelog |-> FALSE, packageJsonPath |-> <<>> ]

(* parseFloat on the threshold texts of the model *)
parseFloat(text) ==
  CASE text = "0.8" -> (One * 8) \div 10
    [] text = "1.5" -> (One * 15) \div 10
    [] text = "-0.1" -> 0 - (One \div 10)
    [] OTHER -> NaN

(* getActionInputs: the threshold is parsed, the other inputs are texts *)
getActionInputs(raw) ==
  [raw EXCEPT !.aiConfidenceThreshold = parseFloat(raw.aiConfidenceThreshold)]

(* validateInputs: the message of the Error it throws, "" when it returns *)
validateInputs(in) ==
  IF in.featureBranch = "" THEN "feature-branch input is required"
  ELSE IF in.versioningStrategy \notin {"conventional", "ai", "hybrid"}
  THEN "versioning-strategy must be one of: conventional, ai, hybrid"
  ELSE IF in.aiProvider \notin {"openai", "anthropic"}
  THEN "ai-provider must be one of: openai, anthropic"
  ELSE IF /\ in.versioningStrategy \in {"ai", "hybrid"}
          /\ in.aiProvider = "openai" /\ in.openaiApiKey = ""
  THEN "openai-api-key is required when using OpenAI provider"
  ELSE IF /\ in.versioningStrategy \in {"ai", "hybrid"}
          /\ in.aiProvider = "anthropic" /\ in.anthropicApiKey = ""
  THEN "anthropic-api-key is required when using Anthropic provider"
  ELSE IF /\ ~IsNaN(in.aiConfidenceThreshold)
          /\ (in.aiConfidenceThreshold < 0 \/ in.aiConfidenceThreshold > One)
  THEN "ai-confidence-threshold must be between 0.0 and 1.0"
  ELSE IF in.changelogFormat \notin {"keepachangelog", "custom"}
  THEN "changelog-format must be one of: keepachangelog, custom"
  ELSE IF in.changelogFormat = "custom" /\ in.changelogTemplate = ""
  THEN "changelog-template is required when using custom format"
  ELSE ""

(* createAIAnalyzer returns an analyzer, not null *)
createsAIAnalyzer(in) == in.aiProvider = "openai" /\ in.openaiApiKey # ""

(* new ReleaseWorkflow(config): the message of the WorkflowError that      *)
(* validateConfiguration throws, "" when the workflow is constructed       *)
validateConfiguration(in) ==
  IF in.githubToken = "" THEN "GitHub token is required"
  ELSE IF in.versioningStrategy \in {"ai", "hybrid"} /\ ~createsAIAnalyzer(in)
  THEN "AI strategy requires valid API key for " \o in.aiProvider
  ELSE ""

(* the WorkflowConfig fields the model of the workflow reads *)
workflowConfig(in) ==
  [ versioningStrategy |-> in.versioningStrategy,
    aiConfidenceThreshold |-> in.aiConfidenceThreshold,
    skipChangelog |-> in.skipChangelog,
    packageJsonPath |-> in.packageJsonPath ]

(***************************************************************************)
(* State                                                                   *)
(***************************************************************************)
VARIABLES
  config,        \* WorkflowConfig of the run
  pc,            \* the step execute is at; "none" when no workflow runs
  gitData,       \* result of step 1
  versionData,   \* result of step 2
  changeData,    \* result of step 3
  changelogData, \* result of step 4
  result,        \* the ReleaseResult execute resolves with
  failures,      \* the messages passed to core.setFailed
  changelog,     \* the changelog store
  releaseBranch, \* the release branch created in the repository, or <<>>
  retryConfig,   \* AIAnalyzer.retryConfig
  confidence,    \* AIAnalyzer.confidence
  calls,         \* the calls of AIAnalyzer.analyze
  git,           \* GitOperations: the repository and the git commands run
  inputs,        \* the action inputs read by run, NoInputs without run
  ver            \* a client of VersionAnalyzer: its version objects and results

vars ==
  << config, pc, gitData, versionData, changeData, changelogData, result, failures,
     changelog, releaseBranch, retryConfig, confidence, calls, git, inputs, ver >>

workflowVars ==
  << config, gitData, versionData, changeData, changelogData, result, failures,
     changelog, releaseBranch >>

EmptyChangelog == [unreleased |-> <<>>, released |-> <<>>]

NoConfig ==
  [versioningStrategy |-> "", aiConfidenceThreshold |-> 0, skipChangelog |-> FALSE,
   packageJsonPath |-> <<>>]

(* a workflow constructed from a configuration that passed validation;     *)
(* createAIAnalyzer leaves the retry settings at their defaults            *)
Init ==
  /\ config \in [ versioningStrategy : Strategies,
                  aiConfidenceThreshold : Thresholds,
                  skipChangelog : BOOLEAN,
                  packageJsonPath : PackagePaths ]
  /\ pc = "analyzeChanges"
  /\ gitData = NoGitData
  /\ versionData = NoVersionData
  /\ changeData = NoChangeData
  /\ changelogData = NoChangelogData
  /\ result = NoResult
  /\ failures = <<>>
  /\ changelog = EmptyChangelog
  /\ releaseBranch = <<>>
  /\ retryConfig = RetryConfig(DefaultMaxRetries, DefaultRetryDelay)
  /\ confidence = 0
  /\ calls = [c \in CallIds |-> IdleCall]
  /\ git = NoGit
  /\ inputs = NoInputs
  /\ ver = NoVer

(* the catch block of execute *)
Fail(message) ==
  /\ failures' = Append(failures, message)
  /\ result' = failureResult(config.versioningStrategy, message)
  /\ pc' = "done"

(***************************************************************************)
(* ReleaseWorkflow.execute, step by step                                   *)
(***************************************************************************)
(* step 1: validateRepository and generateDiff run git commands, the first *)
(* of them in any case, and may throw                                      *)
AnalyzeChanges ==
  /\ pc = "analyzeChanges"
  /\ \/ \E diff \in Diffs :
          /\ gitData' = [def |-> TRUE, commits |-> diff, commitCount |-> Len(diff)]
          /\ pc' = "analyzeVersion"
          /\ UNCHANGED << result, failures >>
     \/ \E gitError \in {"Repository validation failed", "Failed to generate diff"} :
          /\ Fail("Failed to analyze repository changes: " \o gitError)
          /\ UNCHANGED gitData
  /\ git' = [git EXCEPT !.started = TRUE]
  /\ UNCHANGED << config, versionData, changeData, changelogData, changelog,
                  releaseBranch, retryConfig, confidence, calls, inputs, ver >>

(* analyzeVersion: the version data, from the conventional view of the diff *)
versionDataOf(currentVersion, commits) ==
  LET versionBump == determineVersionBump(commits)
  IN  [ def |-> TRUE, currentVersion |-> currentVersion,
        newVersion |-> incrementVersion(currentVersion, versionBump),
        versionBump |-> versionBump ]

(* step 2 *)
AnalyzeVersion ==
  /\ pc = "analyzeVersion"
  /\ LET parsed == parseVersion(config.packageJsonPath)
     IN  IF parsed.ok
         THEN /\ versionData' = versionDataOf(parsed.version, gitData.commits)
              /\ pc' = "analyzeWithAI"
              /\ UNCHANGED << result, failures >>
         ELSE /\ Fail("Failed to analyze version: Invalid semantic version format")
              /\ UNCHANGED versionData
  /\ UNCHANGED << config, gitData, changeData, changelogData, changelog,
                  releaseBranch, retryConfig, confidence, calls, git, inputs, ver >>

(* step 3 up to the await: without AI the conventional data is returned,   *)
(* with AI analyze is called and runs to its first suspension              *)
AnalyzeWithAI ==
  /\ pc = "analyzeWithAI"
  /\ IF ~shouldUseAI(config.versioningStrategy)
     THEN /\ changeData' = conventionalData(gitData.commits, versionData.versionBump)
          /\ pc' = "updateChangelog"
          /\ UNCHANGED calls
     ELSE /\ calls' = [calls EXCEPT ![1] = startAnalyze(gitData.commits, retryConfig)]
          /\ pc' = "awaitAI"
          /\ UNCHANGED changeData
  /\ UNCHANGED << config, gitData, versionData, changelogData, result, failures,
                  changelog, releaseBranch, retryConfig, confidence, git, inputs, ver >>

(* step 3 after the await: analyze resolved or rejected *)
AnalyzeWithAIResume ==
  /\ pc = "awaitAI"
  /\ calls[1].pc \in {"resolved", "rejected"}
  /\ LET strategy == config.versioningStrategy
         commits == gitData.commits
         analysis == calls[1].result
     IN  IF calls[1].pc = "resolved"
         THEN /\ changeData' =
                   IF fallsBackOnLowConfidence(
                        strategy,
                        aiConfidenceOk(analysis.confidence, config.aiConfidenceThreshold))
                   THEN lowConfidenceData(analysis, commits, versionData.versionBump)
                   ELSE acceptedData(analysis)
              /\ pc' = "updateChangelog"
              /\ UNCHANGED << result, failures >>
         ELSE IF catchFallsBack(strategy)
         THEN /\ changeData' = errorFallbackData(commits, versionData.versionBump)
              /\ pc' = "updateChangelog"
              /\ UNCHANGED << result, failures >>
         ELSE /\ Fail("AI analysis failed: " \o calls[1].error.message)
              /\ UNCHANGED changeData
  /\ UNCHANGED << config, gitData, versionData, changelogData, changelog,
                  releaseBranch, retryConfig, confidence, calls, git, inputs, ver >>

(* step 4: addUnreleasedEntries, then createRelease; either may throw *)
UpdateChangelog ==
  /\ pc = "updateChangelog"
  /\ IF config.skipChangelog
     THEN /\ changelogData' = NoChangelogData
          /\ pc' = "createReleaseBranch"
          /\ UNCHANGED << changelog, result, failures >>
     ELSE \/ /\ changelog' = [ unreleased |-> changeData.entries,
                               released |-> formatVersion(versionData.newVersion) ]
             /\ changelogData' = [ def |-> TRUE,
                                   version |-> formatVersion(versionData.newVersion),
                                   entryCount |-> Len(changeData.entries) ]
             /\ pc' = "createReleaseBranch"
             /\ UNCHANGED << result, failures >>
          \/ /\ Fail("Failed to update changelog: addUnreleasedEntries")
             /\ UNCHANGED << changelog, changelogData >>
          \/ /\ changelog' = [changelog EXCEPT !.unreleased = changeData.entries]
             /\ Fail("Failed to update changelog: createRelease")
             /\ UNCHANGED changelogData
  /\ UNCHANGED << config, gitData, versionData, changeData, releaseBranch,
                  retryConfig, confidence, calls, git, inputs, ver >>

(* step 5 and the return of execute *)
CreateReleaseBranch ==
  /\ pc = "createReleaseBranch"
  /\ LET branchName == sRelease \o formatVersion(versionData.newVersion)
     IN  \/ /\ releaseBranch' = branchName
            /\ result' = successResult(config.versioningStrategy, gitData, versionData,
                                       changeData, changelogData, branchName)
            /\ pc' = "done"
            /\ UNCHANGED failures
         \/ /\ Fail("Failed to create release branch: Failed to create release branch")
            /\ UNCHANGED releaseBranch
         \/ /\ changelogData.def
            /\ releaseBranch' = branchName
            /\ Fail("Failed to create release branch: Failed to commit changes")
  /\ UNCHANGED << config, gitData, versionData, changeData, changelogData, changelog,
                  retryConfig, confidence, calls, git, inputs, ver >>

(***************************************************************************)
(* AIAnalyzer.analyze between its suspension points                        *)
(***************************************************************************)
(* the provider settles the pending request of call c; the handler runs    *)
(* to the next suspension or to the end of analyze                         *)
(* variant: the result is built from the confidence field before the      *)
(* field is assigned                                                       *)
ProviderSettles_readsFieldFirst(c, outcome) ==
  /\ calls[c].pc = "create"
  /\ LET after == onProviderOutcome(calls[c], outcome, retryConfig)
     IN  /\ calls' = [calls EXCEPT ![c] =
                        IF after.pc = "resolved"
                        THEN [after EXCEPT !.result.confidence = confidence]
                        ELSE after]
         /\ confidence' = IF after.pc = "resolved" THEN after.result.confidence
                          ELSE confidence
  /\ UNCHANGED << pc, retryConfig, git, inputs, ver >>
  /\ UNCHANGED workflowVars

(* the pending request of call c settles with outcome; on success the      *)
(* confidence field is assigned and read into the result in the same turn  *)
ProviderSettles(c, outcome) ==
  /\ calls[c].pc = "create"
  /\ LET after == onProviderOutcome(calls[c], outcome, retryConfig)
     IN  /\ calls' = [calls EXCEPT ![c] = after]
         /\ confidence' = IF after.pc = "resolved" THEN after.result.confidence
                          ELSE confidence
  /\ UNCHANGED << pc, retryConfig, git, inputs, ver >>
  /\ UNCHANGED workflowVars

ProviderResponds(c) == \E outcome \in ProviderOutcomes : ProviderSettles(c, outcome)

(* the backoff timer of call c fires: the next attempt is issued *)
TimerFires(c) ==
  /\ calls[c].pc = "wait"
  /\ calls' = [calls EXCEPT ![c] = [@ EXCEPT !.pc = "create", !.attempt = @ + 1]]
  /\ UNCHANGED << pc, retryConfig, confidence, git, inputs, ver >>
  /\ UNCHANGED workflowVars

Next ==
  \/ AnalyzeChanges
  \/ AnalyzeVersion
  \/ AnalyzeWithAI
  \/ ProviderResponds(1)
  \/ TimerFires(1)
  \/ AnalyzeWithAIResume
  \/ UpdateChangelog
  \/ CreateReleaseBranch

Spec == Init /\ [][Next]_vars

(***************************************************************************)
(* The analyzer on its own: a client calls analyze on an AIAnalyzer        *)
(* constructed with its own maxRetries and retryDelay                      *)
(***************************************************************************)
RetryDelays == {10, DefaultRetryDelay}

InitAnalyzer ==
  /\ config = NoConfig
  /\ pc = "none"
  /\ gitData = NoGitData
  /\ versionData = NoVersionData
  /\ changeData = NoChangeData
  /\ changelogData = NoChangelogData
  /\ result = NoResult
  /\ failures = <<>>
  /\ changelog = EmptyChangelog
  /\ releaseBranch = <<>>
  /\ retryConfig \in { RetryConfig(m, d) : m \in 0..MaxRetriesBound, d \in RetryDelays }
  /\ confidence = 0
  /\ calls = [c \in CallIds |-> IdleCall]
  /\ git = NoGit
  /\ inputs = NoInputs
  /\ ver = NoVer

(* analyzer.analyze(gitDiff), up to its first suspension *)
Analyze(c) ==
  /\ pc = "none"
  /\ calls[c].pc = "idle"
  /\ \E diff \in Diffs : calls' = [calls EXCEPT ![c] = startAnalyze(diff, retryConfig)]
  /\ UNCHANGED << pc, retryConfig, confidence, git, inputs, ver >>
  /\ UNCHANGED workflowVars

AnalyzerNext ==
  \/ Analyze(1)
  \/ ProviderResponds(1)
  \/ TimerFires(1)

AnalyzerSpec == InitAnalyzer /\ [][AnalyzerNext]_vars

(***************************************************************************)
(* The backoff schedule: analyze on one diff, with up to MaxBackoffRetries *)
(* attempts                                                                *)
(***************************************************************************)
BackoffDiffs == { CommitsOf(<<mFeat>>) }

InitBackoff ==
  /\ config = NoConfig
  /\ pc = "none"
  /\ gitData = NoGitData
  /\ versionData = NoVersionData
  /\ changeData = NoChangeData
  /\ changelogData = NoChangelogData
  /\ result = NoResult
  /\ failures = <<>>
  /\ changelog = EmptyChangelog
  /\ releaseBranch = <<>>
  /\ retryConfig \in { RetryConfig(m, d) : m \in 1..MaxBackoffRetries, d \in RetryDelays }
  /\ confidence = 0
  /\ calls = [c \in CallIds |-> IdleCall]
  /\ git = NoGit
  /\ inputs = NoInputs
  /\ ver = NoVer

(* analyzer.analyze(gitDiff) on a diff of one commit *)
AnalyzeOneCommit(c) ==
  /\ pc = "none"
  /\ calls[c].pc = "idle"
  /\ \E diff \in BackoffDiffs :
       calls' = [calls EXCEPT ![c] = startAnalyze(diff, retryConfig)]
  /\ UNCHANGED << pc, retryConfig, confidence, git, inputs, ver >>
  /\ UNCHANGED workflowVars

BackoffNext ==
  \/ AnalyzeOneCommit(1)
  \/ ProviderResponds(1)
  \/ TimerFires(1)

BackoffSpec == InitBackoff /\ [][BackoffNext]_vars

(***************************************************************************)
(* determineVersionBump on its own: the version analyzer is given a diff   *)
(***************************************************************************)
mScopedFeat == sFeat \o <<"(", "a", "p", "i", ")", ":", " ", "a", "d", "d", " ", "X">>

mScopedFix == sFix \o <<"(", "u", "i", ")", ":", " ", "b", "u", "g", " ", "Y">>

mDocs == sDocs \o <<":", " ", "r", "e", "a", "d", "m", "e">>

mChore == sChore \o <<":", " ", "t", "i", "d", "y">>

mFixFeature == sFixColon \o <<" ", "f", "e", "a", "t", "u", "r", "e", " ", "f", "l", "a", "g">>

mStyleBreaking == sStyle \o <<":", " ", "b", "r", "e", "a", "k", "i", "n", "g", " ", "l", "i", "n", "e", "s">>

mFooter == sPerf \o <<":", " ", "x", "\n", "\n", "B", "R", "E", "A", "K", "I", "N", "G", " ", "C", "H", "A", "N", "G", "E", ":", " ", "y">>

BumpMessages ==
  { mFeat, mFix, mBreaking, mScopedFeat, mScopedFix, mDocs, mChore, mFixFeature,
    mStyleBreaking, mFooter }

BumpDiffs == { CommitsOf(m) : m \in SeqsUpTo(BumpMessages, MaxCommits) }

InitBump ==
  /\ config = NoConfig
  /\ pc = "none"
  /\ gitData = NoGitData
  /\ versionData = NoVersionData
  /\ changeData = NoChangeData
  /\ changelogData = NoChangelogData
  /\ result = NoResult
  /\ failures = <<>>
  /\ changelog = EmptyChangelog
  /\ releaseBranch = <<>>
  /\ retryConfig = RetryConfig(DefaultMaxRetries, DefaultRetryDelay)
  /\ confidence = 0
  /\ calls = [c \in CallIds |-> IdleCall]
  /\ git = NoGit
  /\ inputs = NoInputs
  /\ ver = NoVer

(* versionAnalyzer.determineVersionBump(gitDiff) and incrementVersion, as  *)
(* analyzeVersion calls them, from version 1.2.3                           *)
DetermineVersionBump ==
  /\ pc = "none"
  /\ ~versionData.def
  /\ \E diff \in BumpDiffs :
       /\ gitData' = [def |-> TRUE, commits |-> diff, commitCount |-> Len(diff)]
       /\ versionData' =
            versionDataOf(parseVersion(<<"1", ".", "2", ".", "3">>).version, diff)
  /\ UNCHANGED << config, pc, changeData, changelogData, result, failures, changelog,
                  releaseBranch, retryConfig, confidence, calls, git, inputs, ver >>

BumpNext == DetermineVersionBump

BumpSpec == InitBump /\ [][BumpNext]_vars

(***************************************************************************)
(* GitOperations on its own: generateDiff or validateBranches is called in *)
(* a repository that has any of the two branches locally, as a             *)
(* remote-tracking ref, or on the remote only                              *)
(***************************************************************************)
BaseBranch == "main"

FeatureBranch == "feature"

Branches == {BaseBranch, FeatureBranch}

InitGit ==
  /\ config = NoConfig
  /\ pc = "none"
  /\ gitData = NoGitData
  /\ versionData = NoVersionData
  /\ changeData = NoChangeData
  /\ changelogData = NoChangelogData
  /\ result = NoResult
  /\ failures = <<>>
  /\ changelog = EmptyChangelog
  /\ releaseBranch = <<>>
  /\ retryConfig = RetryConfig(DefaultMaxRetries, DefaultRetryDelay)
  /\ confidence = 0
  /\ calls = [c \in CallIds |-> IdleCall]
  /\ \E refs \in SUBSET (Branches \cup { Origin(b) : b \in Branches }) :
       \E remote \in SUBSET Branches :
         git = [NoGit EXCEPT !.pc = "idle", !.refs = refs, !.remote = remote]
  /\ inputs = NoInputs
  /\ ver = NoVer

GenerateDiff ==
  /\ git.pc = "idle"
  /\ \E logOk \in BOOLEAN : \E diffOk \in BOOLEAN :
       git' = generateDiff(git, BaseBranch, FeatureBranch, logOk, diffOk)
  /\ UNCHANGED << pc, retryConfig, confidence, calls, inputs, ver >>
  /\ UNCHANGED workflowVars

ValidateBranches ==
  /\ git.pc = "idle"
  /\ LET valid == validateBranches(git, <<BaseBranch, FeatureBranch>>)
     IN  git' = [valid.st EXCEPT !.pc = IF valid.ok THEN "validated" ELSE "failed",
                                 !.error = valid.error]
  /\ UNCHANGED << pc, retryConfig, confidence, calls, inputs, ver >>
  /\ UNCHANGED workflowVars

GitNext ==
  \/ GenerateDiff
  \/ ValidateBranches

GitSpec == InitGit /\ [][GitNext]_vars

(***************************************************************************)
(* The action: run reads and validates the inputs, constructs the workflow *)
(* and executes it                                                         *)
(***************************************************************************)
ThresholdTexts == {"0.8", "1.5", "-0.1", "high"}

ActionInputs ==
  [ featureBranch : {"", "feature"},
    githubToken : {"", "token"},
    versioningStrategy : Strategies,
    aiProvider : {"openai", "anthropic"},
    openaiApiKey : {"", "sk-1"},
    anthropicApiKey : {"", "ak-1"},
    aiConfidenceThreshold : ThresholdTexts,
    changelogFormat : {"keepachangelog"},
    changelogTemplate : {""},
    skipChangelog : {FALSE},
    packageJsonPath : { <<"1", ".", "2", ".", "3">> } ]

InitMain ==
  /\ inputs \in ActionInputs
  /\ ver = NoVer
  /\ config = NoConfig
  /\ pc = "run"
  /\ gitData = NoGitData
  /\ versionData = NoVersionData
  /\ changeData = NoChangeData
  /\ changelogData = NoChangelogData
  /\ result = NoResult
  /\ failures = <<>>
  /\ changelog = EmptyChangelog
  /\ releaseBranch = <<>>
  /\ retryConfig = RetryConfig(DefaultMaxRetries, DefaultRetryDelay)
  /\ confidence = 0
  /\ calls = [c \in CallIds |-> IdleCall]
  /\ git = NoGit

(* run up to the call of execute; its catch block reports what             *)
(* validateInputs or the constructor throws with core.setFailed            *)
Run ==
  /\ pc = "run"
  /\ LET in == getActionInputs(inputs)
         inputError == validateInputs(in)
         configError == validateConfiguration(in)
         thrown == IF inputError # "" THEN inputError ELSE configError
     IN  IF thrown # ""
         THEN /\ failures' = Append(failures, "AI Release Tool failed: " \o thrown)
              /\ pc' = "done"
              /\ UNCHANGED config
         ELSE /\ config' = workflowConfig(in)
              /\ pc' = "analyzeChanges"
              /\ UNCHANGED failures
  /\ UNCHANGED << gitData, versionData, changeData, changelogData, result, changelog,
                  releaseBranch, retryConfig, confidence, calls, git, inputs, ver >>

MainNext ==
  \/ Run
  \/ Next

MainSpec == InitMain /\ [][MainNext]_vars

(***************************************************************************)
(* Two calls of analyze on one AIAnalyzer, in flight at the same time      *)
(***************************************************************************)
MaxConcurrentRetries == 2

ConcurrentDiffs == { CommitsOf(<<mFeat>>), CommitsOf(<<mFeat, mFix>>) }

ConcurrentTexts ==
  { JObject(JString("major"), JNumber(One), JArray(<<JString("r1"), JString("r2")>>),
            JArray(<<chFeat>>)),
    JObject(JString("patch"), JNumber((One * 8) \div 10), JArray(<<>>),
            JArray(<<chFeat>>)),
    JObject(JString("patch"), JNumber(One \div 2), JArray(<<>>), JArray(<<>>)),
    [BaseText EXCEPT !.json = FALSE] }

ConcurrentOutcomes ==
  { [kind |-> "status", status |-> 429, empty |-> FALSE, text |-> BaseText],
    [kind |-> "status", status |-> 401, empty |-> FALSE, text |-> BaseText] }
  \cup { [kind |-> "completion", status |-> 200, empty |-> FALSE, text |-> t] :
           t \in ConcurrentTexts }

InitConcurrent ==
  /\ config = NoConfig
  /\ pc = "none"
  /\ gitData = NoGitData
  /\ versionData = NoVersionData
  /\ changeData = NoChangeData
  /\ changelogData = NoChangelogData
  /\ result = NoResult
  /\ failures = <<>>
  /\ changelog = EmptyChangelog
  /\ releaseBranch = <<>>
  /\ retryConfig \in { RetryConfig(m, d) : m \in 1..MaxConcurrentRetries,
                                           d \in RetryDelays }
  /\ confidence = 0
  /\ calls = [c \in CallIds |-> IdleCall]
  /\ git = NoGit
  /\ inputs = NoInputs
  /\ ver = NoVer

(* analyzer.analyze(gitDiff) is called while another call may be pending *)
AnalyzeConcurrently(c) ==
  /\ pc = "none"
  /\ calls[c].pc = "idle"
  /\ \E diff \in ConcurrentDiffs :
       calls' = [calls EXCEPT ![c] = startAnalyze(diff, retryConfig)]
  /\ UNCHANGED << pc, retryConfig, confidence, git, inputs, ver >>
  /\ UNCHANGED workflowVars

ConcurrentNext ==
  \E c \in CallIds :
    \/ AnalyzeConcurrently(c)
    \/ \E outcome \in ConcurrentOutcomes : ProviderSettles(c, outcome)
    \/ TimerFires(c)

ConcurrentSpec == InitConcurrent /\ [][ConcurrentNext]_vars

(***************************************************************************)
(* VersionAnalyzer on its own: one call of one of its operations on a      *)
(* version object                                                          *)
(***************************************************************************)
sAlpha == <<"a", "l", "p", "h", "a">>
sBeta == <<"b", "e", "t", "a">>

Cores == { <<1, 2, 3>>, <<1, 2, 10>>, <<1, 3, 0>>, <<2, 0, 0>> }

Prereleases ==
  { NoString, SomeString(<<>>),
    SomeString(sAlpha \o <<".", "1">>), SomeString(sAlpha \o <<".", "9">>),
    SomeString(sBeta \o <<".", "2">>), SomeString(<<"r", "c", "-", "1">>),
    SomeString(<<"A">> \o Tail(sAlpha) \o <<".", "1">>) }

Builds == { NoString, SomeString(<<"b", "u", "i", "l", "d", ".", "5">>) }

Versions ==
  { [ major |-> core[1], minor |-> core[2], patch |-> core[3],
      prerelease |-> pre, build |-> build ] :
    core \in Cores, pre \in Prereleases, build \in Builds }

PrereleaseTypes == { sAlpha, sBeta }

Collations == { "icu", "codeunit" }

InitVersion ==
  /\ config = NoConfig
  /\ pc = "none"
  /\ gitData = NoGitData
  /\ versionData = NoVersionData
  /\ changeData = NoChangeData
  /\ changelogData = NoChangelogData
  /\ result = NoResult
  /\ failures = <<>>
  /\ changelog = EmptyChangelog
  /\ releaseBranch = <<>>
  /\ retryConfig = RetryConfig(DefaultMaxRetries, DefaultRetryDelay)
  /\ confidence = 0
  /\ calls = [c \in CallIds |-> IdleCall]
  /\ git = NoGit
  /\ inputs = NoInputs
  /\ ver \in { [NoVer EXCEPT !.pc = "idle", !.heap = <<v>>, !.arg = 1,
                              !.collation = collation] :
                v \in Versions, collation \in Collations }

(* a client formats heap[arg] and parses the text *)
FormatThenParse(includePrefix) ==
  /\ ver.pc = "idle"
  /\ LET text == VersionAnalyzer_formatVersion(ver.heap[ver.arg], includePrefix)
         parsed == parseVersion(text)
     IN  ver' = [ver EXCEPT !.pc = "done", !.op = "formatThenParse",
                            !.includePrefix = includePrefix, !.text = text,
                            !.thrown = ~parsed.ok,
                            !.heap = IF parsed.ok THEN Append(@, parsed.version) ELSE @,
                            !.ret = IF parsed.ok THEN Len(ver.heap) + 1 ELSE 0]
  /\ UNCHANGED << workflowVars, pc, retryConfig, confidence, calls, git, inputs >>

(* the object returned is a new one in every branch *)
IncrementVersion(bumpType) ==
  /\ ver.pc = "idle"
  /\ ver' = [ver EXCEPT !.pc = "done", !.op = "incrementVersion",
                        !.bumpType = bumpType,
                        !.heap = Append(@, incrementVersion(ver.heap[ver.arg], bumpType)),
                        !.ret = Len(ver.heap) + 1]
  /\ UNCHANGED << workflowVars, pc, retryConfig, confidence, calls, git, inputs >>

(* newVersion = { ...version } is a new object, the one changed and returned *)
IncrementPrerelease(prereleaseType) ==
  /\ ver.pc = "idle"
  /\ ver' = [ver EXCEPT !.pc = "done", !.op = "incrementPrerelease",
                        !.prereleaseType = prereleaseType,
                        !.heap = Append(@, incrementPrerelease(ver.heap[ver.arg],
                                                               prereleaseType)),
                        !.ret = Len(ver.heap) + 1]
  /\ UNCHANGED << workflowVars, pc, retryConfig, confidence, calls, git, inputs >>

PromoteToStable ==
  /\ ver.pc = "idle"
  /\ LET promoted == promoteToStable(ver.heap[ver.arg])
     IN  ver' = [ver EXCEPT !.pc = "done", !.op = "promoteToStable",
                            !.thrown = ~promoted.ok,
                            !.heap = IF promoted.ok THEN Append(@, promoted.version)
                                     ELSE @,
                            !.ret = IF promoted.ok THEN Len(ver.heap) + 1 ELSE 0]
  /\ UNCHANGED << workflowVars, pc, retryConfig, confidence, calls, git, inputs >>

(* a client compares heap[arg], b and c with one another *)
CompareVersions(b, c) ==
  /\ ver.pc = "idle"
  /\ LET a == ver.heap[ver.arg]
     IN  ver' = [ver EXCEPT !.pc = "done", !.op = "compareVersions",
                            !.b = b, !.c = c,
                            !.cmp = [ ab |-> compareVersions(a, b, ver.collation),
                                      ba |-> compareVersions(b, a, ver.collation),
                                      bc |-> compareVersions(b, c, ver.collation),
                                      ac |-> compareVersions(a, c, ver.collation) ]]
  /\ UNCHANGED << workflowVars, pc, retryConfig, confidence, calls, git, inputs >>

VersionNext ==
  \/ \E includePrefix \in BOOLEAN : FormatThenParse(includePrefix)
  \/ \E bumpType \in {"major", "minor", "patch", "none"} : IncrementVersion(bumpType)
  \/ \E prereleaseType \in PrereleaseTypes : IncrementPrerelease(prereleaseType)
  \/ PromoteToStable
  \/ \E b \in Versions, c \in Versions : CompareVersions(b, c)

VersionSpec == InitVersion /\ [][VersionNext]_vars

(***************************************************************************)
(* Vocabulary of the properties                                            *)
(***************************************************************************)
Strategy == config.versioningStrategy

(* step 3 of the run has come to an end, by a return or by a throw *)
Step3Over == versionData.def /\ pc \in {"updateChangelog", "createReleaseBranch", "done"}

AISettled == Step3Over /\ shouldUseAI(Strategy)

AIFailed == AISettled /\ calls[1].pc = "rejected"

AISucceeded == AISettled /\ calls[1].pc = "resolved"

Analysis == calls[1].result

BelowThreshold == Analysis.confidence < config.aiConfidenceThreshold

ConventionalEntries == createBasicChangelogEntries(gitData.commits)

(* entries made from the commits, one by one: the commit's sha and the     *)
(* category of its message                                                 *)
OnePerCommit(entries) ==
  /\ Len(entries) = Len(gitData.commits)
  /\ \A i \in 1..Len(entries) :
       /\ entries[i].commitSha = gitData.commits[i].sha
       /\ entries[i].category = categorizeCommitType(gitData.commits[i].message)
       /\ ~entries[i].hasIssues

FailedNote == "AI analysis failed, using conventional fallback"

ThresholdNote == "Confidence below threshold, using conventional analysis"

Succeeded == result.returned /\ result.success

(* the run failed in step 3 *)
FailedInStep3 ==
  /\ pc = "done" /\ result.returned /\ ~result.success
  /\ failures = <<"AI analysis failed: " \o calls[1].error.message>>

(* the data of step 3 reaches the result unchanged *)
ResultCarries(data) ==
  Succeeded => /\ result.reasoning = data.reasoning
               /\ result.aiConfidence = data.aiConfidence
               /\ result.breakingChanges = data.breakingChanges

(***************************************************************************)
(* C1: under hybrid, when analyze rejects (whatever the reason) the run    *)
(* goes on: step 3 returns one conventional entry per commit, the single   *)
(* note 'AI analysis failed, using conventional fallback' and confidence   *)
(* 0, and a successful result reports that reasoning and confidence.       *)
(***************************************************************************)
C1_HybridFailureFallsBack ==
  (Strategy = "hybrid" /\ AIFailed) =>
    /\ ~FailedInStep3
    /\ changeData.entries = ConventionalEntries
    /\ OnePerCommit(changeData.entries)
    /\ changeData.reasoning = <<FailedNote>>
    /\ changeData.aiConfidence = SomeNumber(0)
    /\ ResultCarries(changeData)
    /\ Succeeded => result.reasoning = <<FailedNote>> /\ result.aiConfidence.def
                    /\ result.aiConfidence.val = 0

(* a hybrid run that ended well after all attempts failed retryably *)
C1_Witness ==
  /\ Strategy = "hybrid" /\ AIFailed /\ Succeeded
  /\ Len(calls[1].outcomes) = DefaultMaxRetries
  /\ Len(gitData.commits) = 2
  /\ result.aiConfidence = SomeNumber(0)

(***************************************************************************)
(* C2: under hybrid, when analyze resolves with confidence strictly below  *)
(* the threshold, the entries are the conventional ones, the reasoning is  *)
(* the AI's reasoning in order followed by exactly one fallback note, and  *)
(* the reported confidence is present and is the AI's confidence.          *)
(***************************************************************************)
C2_LowConfidenceFallsBack ==
  (Strategy = "hybrid" /\ AISucceeded /\ BelowThreshold) =>
    /\ changeData.entries = ConventionalEntries
    /\ OnePerCommit(changeData.entries)
    /\ Len(changeData.reasoning) = Len(Analysis.reasoning) + 1
    /\ SubSeq(changeData.reasoning, 1, Len(Analysis.reasoning)) = Analysis.reasoning
    /\ changeData.reasoning[Len(changeData.reasoning)] = ThresholdNote
    /\ changeData.aiConfidence.def
    /\ changeData.aiConfidence.val = Analysis.confidence
    /\ ResultCarries(changeData)

(* a low-confidence hybrid run that ended well with the AI's two reasons *)
C2_Witness ==
  /\ Strategy = "hybrid" /\ AISucceeded /\ BelowThreshold /\ Succeeded
  /\ Len(Analysis.reasoning) = 2
  /\ Len(result.reasoning) = 3
  /\ Len(Analysis.changes) = 3
  /\ result.aiConfidence.val > 0

(* step 3 returned the AI's output as it is *)
AIAccepted ==
  /\ changeData.entries = Analysis.changes
  /\ changeData.reasoning = Analysis.reasoning
  /\ \A i \in 1..Len(changeData.reasoning) :
       changeData.reasoning[i] \notin {FailedNote, ThresholdNote}

(***************************************************************************)
(* C3: under hybrid the threshold comparison is inclusive: the AI result   *)
(* is accepted (entries and reasoning are the AI's, no fallback note) if   *)
(* and only if the AI confidence is >= the threshold.                      *)
(***************************************************************************)
C3_ThresholdInclusive ==
  (Strategy = "hybrid" /\ AISucceeded) =>
    (AIAccepted <=> Analysis.confidence >= config.aiConfidenceThreshold)

(* a hybrid run whose AI confidence equals the threshold, accepted *)
C3_Witness ==
  /\ Strategy = "hybrid" /\ AISucceeded /\ Succeeded
  /\ Analysis.confidence = config.aiConfidenceThreshold
  /\ AIAccepted
  /\ Len(Analysis.changes) > 0

(***************************************************************************)
(* C4: under ai, a rejected analyze is fatal: step 3 returns no data (no   *)
(* conventional entries stand in), no later step runs, so no changelog is  *)
(* written and no release branch is created, and the run ends as a failure *)
(* reported once, with the AI failure as its message.                      *)
(***************************************************************************)
C4_AIFailureIsFatal ==
  (Strategy = "ai" /\ AIFailed) =>
    /\ FailedInStep3
    /\ changeData = NoChangeData
    /\ changelog = EmptyChangelog
    /\ ~changelogData.def
    /\ releaseBranch = <<>>
    /\ result.reasoning = failures
    /\ result.releaseBranch = <<>>

(* an ai run that failed on a non-retryable provider error *)
C4_Witness ==
  /\ Strategy = "ai" /\ AIFailed /\ FailedInStep3
  /\ ~config.skipChangelog
  /\ Len(calls[1].outcomes) = 1
  /\ calls[1].outcomes[1].status = 401

(***************************************************************************)
(* C5: under ai, a resolved analyze is accepted whatever its confidence:   *)
(* entries and reasoning are the AI's, also below the threshold.           *)
(***************************************************************************)
C5_AIStrategyIgnoresThreshold ==
  (Strategy = "ai" /\ AISucceeded) =>
    /\ AIAccepted
    /\ changeData.aiConfidence = SomeNumber(Analysis.confidence)
    /\ ResultCarries(changeData)

(* an ai run that ended well with a confidence below the threshold *)
C5_Witness ==
  /\ Strategy = "ai" /\ AISucceeded /\ BelowThreshold /\ Succeeded
  /\ Len(Analysis.changes) > 0
  /\ result.reasoning = Analysis.reasoning

(* step 3 returned the AI's output: ai, or hybrid at or above the threshold *)
AcceptedPath == AISucceeded /\ (Strategy = "ai" \/ ~BelowThreshold)

(* step 3 returned conventional data *)
ConventionalPath ==
  /\ Step3Over
  /\ \/ Strategy = "conventional"
     \/ Strategy = "hybrid" /\ AIFailed
     \/ Strategy = "hybrid" /\ AISucceeded /\ BelowThreshold

(***************************************************************************)
(* C6: when the AI result is accepted, the version bump of the result and  *)
(* the new version computed from it are those of the bump the AI returned, *)
(* not of the bump inferred from the commit messages.                      *)
(***************************************************************************)
C6_AcceptedBumpIsTheAIBump ==
  (AcceptedPath /\ Succeeded) =>
    /\ result.versionBump = Analysis.versionBump
    /\ result.version =
         formatVersion(incrementVersion(versionData.currentVersion, Analysis.versionBump))

(***************************************************************************)
(* C7: the result is tagged with the strategy actually used: a hybrid run  *)
(* that fell back to conventional analysis reports 'conventional'.         *)
(***************************************************************************)
C7_StrategyTagIsTheOneUsed ==
  (Strategy = "hybrid" /\ ConventionalPath /\ Succeeded) =>
    result.analysisStrategy = "conventional"

(***************************************************************************)
(* C8: the breaking-change flag comes from the classifier whose output was *)
(* accepted: on every conventional path it is (versionBump = major), when  *)
(* the AI result is accepted it is 'some returned AI entry is breaking';   *)
(* the result reports the flag of step 3.                                  *)
(***************************************************************************)
C8_BreakingFlagFollowsClassifier ==
  /\ ConventionalPath =>
       /\ changeData.breakingChanges = (versionData.versionBump = "major")
       /\ Succeeded => result.breakingChanges = (result.versionBump = "major")
  /\ AcceptedPath =>
       /\ changeData.breakingChanges =
            (\E i \in 1..Len(Analysis.changes) : Analysis.changes[i].isBreaking)
       /\ ResultCarries(changeData)

(* an accepted AI result without a breaking entry although the AI's bump   *)
(* and the bump of the commits are both major                              *)
C8_Witness ==
  /\ AcceptedPath /\ Succeeded
  /\ Analysis.versionBump = "major"
  /\ result.versionBump = "major"
  /\ Len(Analysis.changes) = 1
  /\ ~result.breakingChanges

(* the classification of provider failures the specification gives *)
SpecRetryable(outcome) ==
  \/ outcome.kind = "status" /\ (outcome.status = 429 \/ outcome.status >= 500)
  \/ outcome.kind = "transport"

(* the i-th attempt of call c failed and another attempt follows it *)
FollowedByAttempt(c, i) ==
  /\ i \in 1..Len(calls[c].outcomes)
  /\ i < Len(calls[c].outcomes) \/ calls[c].pc \in {"wait", "create"}

(***************************************************************************)
(* C9: a failed provider attempt is followed by another attempt only if    *)
(* it failed with HTTP 429, HTTP >= 500 or a transport error; HTTP 401,    *)
(* other 4xx and an empty provider response are never followed by another. *)
(***************************************************************************)
C9_OnlySpecRetryableIsRetried ==
  \A c \in CallIds : \A i \in 1..Len(calls[c].outcomes) :
    FollowedByAttempt(c, i) => SpecRetryable(calls[c].outcomes[i])

(* the retryable flag of the error callOpenAI throws for a failed attempt *)
FlaggedRetryable(outcome) ==
  \/ SpecRetryable(outcome)
  \/ outcome.kind = "completion" /\ outcome.empty

(* the attempt ends the retry loop: it succeeded or it failed with an      *)
(* error flagged non-retryable                                             *)
EndsLoop(outcome) ==
  \/ outcome.kind = "completion" /\ ~outcome.empty
  \/ ~(outcome.kind = "completion") /\ ~FlaggedRetryable(outcome)

(* index of the first attempt that ends the loop, 0 when there is none *)
FirstEnding(outcomes) ==
  LET ending == { i \in 1..Len(outcomes) : EndsLoop(outcomes[i]) }
  IN  IF ending = {} THEN 0 ELSE CHOOSE i \in ending : \A j \in ending : i <= j

(* requests sent to the provider by call c, the pending one included *)
ProviderCalls(c) ==
  Len(calls[c].outcomes) + (IF calls[c].pc = "create" THEN 1 ELSE 0)

CallSettled(c) == calls[c].pc \in {"resolved", "rejected"}

AttemptError(c, i) == callOpenAI(calls[c].outcomes[i], i).error

(* call c used up its attempts: every one of them failed retryably *)
AllAttemptsFailedRetryably(c) ==
  /\ retryConfig.maxRetries >= 1
  /\ CallSettled(c)
  /\ Len(calls[c].outcomes) = retryConfig.maxRetries
  /\ \A i \in 1..Len(calls[c].outcomes) :
       LET o == calls[c].outcomes[i]
       IN  ~(o.kind = "completion" /\ ~o.empty) /\ AttemptError(c, i).retryable

(***************************************************************************)
(* C11: when all maxRetries attempts fail with retryable errors, analyze   *)
(* rejects with an AIAnalysisError whose retryable flag is false and whose *)
(* cause is the error of the last attempt, not of an earlier one.          *)
(***************************************************************************)
C11_ExhaustionWrapsLastError ==
  \A c \in CallIds :
    AllAttemptsFailedRetryably(c) =>
      /\ calls[c].pc = "rejected"
      /\ calls[c].error.name = "AIAnalysisError"
      /\ ~calls[c].error.retryable
      /\ calls[c].error.cause = CauseOf(AttemptError(c, retryConfig.maxRetries))
      /\ calls[c].error.cause.id = retryConfig.maxRetries
      /\ calls[c].error.message =
           "Operation failed after " \o ToString(retryConfig.maxRetries)
             \o " attempts: " \o AttemptError(c, retryConfig.maxRetries).message

(* three attempts failed with three different retryable errors *)
C11_Witness ==
  /\ AllAttemptsFailedRetryably(1)
  /\ retryConfig.maxRetries = 3
  /\ calls[1].outcomes[1].status = 429
  /\ calls[1].outcomes[2].kind = "transport"
  /\ calls[1].outcomes[3].status = 500
  /\ calls[1].error.cause.id = 3

(* the k-th attempt of call c failed with an error flagged retryable *)
FailedRetryably(c, k) ==
  /\ ~(calls[c].outcomes[k].kind = "completion" /\ ~calls[c].outcomes[k].empty)
  /\ AttemptError(c, k).retryable

(* the attempts of call c that are followed by a wait *)
WaitedAfter(c) ==
  { k \in 1..Len(calls[c].outcomes) :
      k < retryConfig.maxRetries /\ FailedRetryably(c, k) }

CalledOnEmptyDiff(c) == calls[c].pc # "idle" /\ Len(calls[c].commits) = 0

(***************************************************************************)
(* C13: when the commit list of the diff is empty, analyze fails at once   *)
(* with an AIAnalysisError: the provider is never called and there is no   *)
(* backoff wait.                                                           *)
(***************************************************************************)
C13_EmptyDiffFailsFast ==
  \A c \in CallIds :
    CalledOnEmptyDiff(c) =>
      /\ calls[c].pc = "rejected"
      /\ calls[c].error.name = "AIAnalysisError"
      /\ calls[c].error.message = "No commits found in git diff"
      /\ ProviderCalls(c) = 0
      /\ calls[c].outcomes = <<>>
      /\ calls[c].delays = <<>>

(* analyze was called on an empty diff by an analyzer that has attempts *)
C13_Witness ==
  /\ CalledOnEmptyDiff(1)
  /\ retryConfig.maxRetries = 3
  /\ calls[1].pc = "rejected"

(* a response text the specification rejects: not JSON, a required field   *)
(* missing or of the wrong type, a bump outside {major, minor, patch}, a   *)
(* confidence outside [0, 1]                                               *)
SpecRejects(text) ==
  \/ ~text.json
  \/ text.root # "object"
  \/ text.versionBump.type # "string"
  \/ text.confidence.type # "number"
  \/ text.reasoning.type # "array"
  \/ text.changes.type # "array"
  \/ \E i \in 1..Len(text.reasoning.items) : text.reasoning.items[i].type # "string"
  \/ text.versionBump.str \notin {"major", "minor", "patch"}
  \/ text.confidence.num < 0
  \/ text.confidence.num > One

(* the provider answered the last request of call c with a text *)
AnsweredWithText(c) ==
  /\ Len(calls[c].outcomes) > 0
  /\ calls[c].outcomes[Len(calls[c].outcomes)].kind = "completion"
  /\ ~calls[c].outcomes[Len(calls[c].outcomes)].empty

LastText(c) == calls[c].outcomes[Len(calls[c].outcomes)].text

(***************************************************************************)
(* C14: when the provider returns a text that is not parseable JSON, that  *)
(* lacks or mistypes a required field, whose bump is not major, minor or   *)
(* patch, or whose confidence is outside [0, 1], analyze rejects with an   *)
(* AIAnalysisError whose retryable flag is false, and the provider is not  *)
(* called again.                                                           *)
(***************************************************************************)
C14_InvalidResponseIsNonRetryable ==
  \A c \in CallIds :
    (AnsweredWithText(c) /\ SpecRejects(LastText(c))) =>
      /\ calls[c].pc = "rejected"
      /\ calls[c].error.name = "AIAnalysisError"
      /\ ~calls[c].error.retryable

(* what the code does with such a text: the call ends with an             *)
(* AIAnalysisError and no further provider call, the flag being false for *)
(* a text that is not JSON                                                 *)
InvalidResponseEndsCall ==
  \A c \in CallIds :
    (AnsweredWithText(c) /\ SpecRejects(LastText(c))) =>
      /\ calls[c].pc = "rejected"
      /\ calls[c].error.name = "AIAnalysisError"
      /\ ~LastText(c).json => ~calls[c].error.retryable

(* the confidence the specification derives from a valid response with     *)
(* the given reported confidence, reasoning count and change count, for a  *)
(* diff of n commits: the multipliers are tenths                           *)
SpecConfidence(reported, reasons, changes, n) ==
  LET f1 == IF reasons = 0 THEN 8 ELSE 10
      f2 == IF n > 0 /\ changes = 0 THEN 7 ELSE 10
      f3 == IF 2 * changes < n \/ changes > 2 * n THEN 9 ELSE 10
      product == (reported * f1 * f2 * f3) \div 1000
  IN  IF product < 0 THEN 0 ELSE IF product > One THEN One ELSE product

(***************************************************************************)
(* C15: for a structurally valid response the confidence analyze returns   *)
(* is the reported confidence times 0.8 if reasoning is empty, times 0.7   *)
(* if the diff has commits and no change was returned, times 0.9 if        *)
(* changes / commits is outside [0.5, 2.0], cumulatively, clamped to       *)
(* [0, 1]; it never exceeds the reported confidence.                       *)
(***************************************************************************)
C15_ConfidenceAdjustment ==
  \A c \in CallIds :
    calls[c].pc = "resolved" =>
      LET text == LastText(c)
          reported == text.confidence.num
      IN  /\ calls[c].result.confidence =
               SpecConfidence(reported, Len(text.reasoning.items),
                              Len(text.changes.items), Len(calls[c].commits))
          /\ calls[c].result.confidence <= reported
          /\ calls[c].result.confidence >= 0

(* two changes for one commit and one change for two commits are ratios    *)
(* inside the range: with reasoning given, the confidence is the reported  *)
(* one                                                                     *)
C15_Witness ==
  /\ calls[1].pc = "resolved"
  /\ Len(calls[1].commits) = 2
  /\ Len(LastText(1).changes.items) = 1
  /\ Len(LastText(1).reasoning.items) = 2
  /\ LastText(1).confidence.num = (One * 8) \div 10
  /\ calls[1].result.confidence = (One * 8) \div 10

(* all three multipliers applied to a reported confidence of 1 *)
AllPenaltiesApplied ==
  /\ calls[1].pc = "resolved"
  /\ LastText(1).confidence.num = One
  /\ calls[1].result.confidence = (One * 504) \div 1000

(* the conventional classifier's view of the commits of a diff *)
ClassifiedBreaking(commits) ==
  \E i \in 1..Len(commits) : parseConventionalCommit(commits[i].message).isBreaking

ClassifiedAs(commits, type) ==
  \E i \in 1..Len(commits) : parseConventionalCommit(commits[i].message).type = type

(* the bump the specification infers from that view *)
SpecBump(commits) ==
  IF ClassifiedBreaking(commits) THEN "major"
  ELSE IF ClassifiedAs(commits, "feat") THEN "minor"
  ELSE IF ClassifiedAs(commits, "fix") THEN "patch"
  ELSE IF Len(commits) > 0 THEN "patch"
  ELSE "none"

(***************************************************************************)
(* C16: for every commit list determineVersionBump follows the             *)
(* conventional classifier: major if a commit is breaking-flagged, else    *)
(* minor if a commit is of type feat (scoped forms included), else patch   *)
(* if a commit is of type fix, else patch for a non-empty list, and none   *)
(* only for the empty list.                                                *)
(***************************************************************************)
C16_BumpFollowsClassifier ==
  versionData.def =>
    /\ versionData.versionBump = SpecBump(gitData.commits)
    /\ versionData.versionBump = "none" <=> Len(gitData.commits) = 0

(* every message of the diff starts with "fix:" and none is breaking-flagged *)
OnlyFixCommits(commits) ==
  /\ Len(commits) > 0
  /\ \A i \in 1..Len(commits) : startsWith(commits[i].message, sFixColon)
  /\ ~ClassifiedBreaking(commits)

(***************************************************************************)
(* C17: for every non-empty commit list whose messages all start with      *)
(* "fix:" and of which none is breaking-flagged, determineVersionBump      *)
(* returns patch, whatever the rest of each message is.                    *)
(***************************************************************************)
C17_OnlyFixesGivePatch ==
  (versionData.def /\ OnlyFixCommits(gitData.commits)) =>
    versionData.versionBump = "patch"

(***************************************************************************)
(* C18: under the conventional strategy the AI provider is never called;   *)
(* step 3 returns exactly one entry per commit, in commit order, with the  *)
(* category the classifier gives the message and the commit's sha, and the *)
(* AI confidence is reported absent. Commits 'feat: add X', 'fix: bug Y'   *)
(* give bump minor and the entries (feat, fix).                            *)
(***************************************************************************)
C18_ConventionalStrategy ==
  Strategy = "conventional" =>
    /\ \A c \in CallIds : calls[c] = IdleCall
    /\ Step3Over =>
         /\ OnePerCommit(changeData.entries)
         /\ changeData.entries = ConventionalEntries
         /\ \A i \in 1..Len(changeData.entries) :
              changeData.entries[i].category =
                parseConventionalCommit(gitData.commits[i].message).type
         /\ ~changeData.aiConfidence.def
         /\ Succeeded => ~result.aiConfidence.def
         /\ [i \in 1..Len(gitData.commits) |-> gitData.commits[i].message]
              = <<mFeat, mFix>> =>
              /\ versionData.versionBump = "minor"
              /\ [i \in 1..2 |-> changeData.entries[i].category] = <<"feat", "fix">>
              /\ Succeeded => result.versionBump = "minor"

(* the run of the scenario ended successfully *)
C18_Witness ==
  /\ Strategy = "conventional"
  /\ Succeeded
  /\ Len(gitData.commits) = 2
  /\ gitData.commits[1].message = mFeat
  /\ gitData.commits[2].message = mFix
  /\ result.versionBump = "minor"
  /\ ~result.aiConfidence.def
  /\ Len(changeData.entries) = 2

(* the commands of the log of a kind, on a ref *)
Ran(cmd, ref) ==
  { j \in 1..Len(git.log) : git.log[j].cmd = cmd /\ git.log[j].ref = ref }

LocalLookups(b) == Ran("rev-parse --verify", b)

RemoteLookups(b) == Ran("rev-parse --verify", Origin(b))

Fetches(b) == Ran("fetch origin", b)

Hits(js) == { j \in js : git.log[j].ok }

(* the positions of the git log and git diff commands *)
RangeCommands == { j \in 1..Len(git.log) : git.log[j].cmd \in {"log", "diff --numstat"} }

(* the ref the range commands use for branch b *)
RangeRef(j, b) == IF b = BaseBranch THEN git.log[j].ref ELSE git.log[j].other

(***************************************************************************)
(* C19: each branch is looked up locally, then as origin/<name>, then      *)
(* fetched, stopping at the first success. A local hit is followed by no   *)
(* remote lookup and no fetch of the branch; a local miss with a remote    *)
(* hit is followed by no fetch and the diff is computed against            *)
(* origin/<name>; when all three fail, generateDiff fails with an error    *)
(* naming the branch and neither git log nor git diff is run.              *)
(***************************************************************************)
C19_BranchResolutionOrder ==
  \A b \in Branches :
    /\ \A j \in RemoteLookups(b) : j - 1 \in LocalLookups(b) \ Hits(LocalLookups(b))
    /\ \A j \in Fetches(b) : j - 1 \in RemoteLookups(b) \ Hits(RemoteLookups(b))
    /\ Hits(LocalLookups(b)) # {} /\ Fetches(b) = {} =>
         RemoteLookups(b) = {}
    /\ Hits(LocalLookups(b)) # {} /\ Fetches(b) # {} =>
         \A j \in LocalLookups(b) \cup RemoteLookups(b) :
           git.log[j].ok => \A f \in Fetches(b) : f < j
    /\ Hits(RemoteLookups(b)) # {} =>
         /\ Fetches(b) = {}
         /\ \A j \in RangeCommands : RangeRef(j, b) = Origin(b)
    /\ Hits(LocalLookups(b)) # {} =>
         \A j \in RangeCommands : RangeRef(j, b) = b
    /\ (Fetches(b) # {} /\ Hits(Fetches(b)) = {}) =>
         /\ git.pc = "failed"
         /\ git.error \in
              { "Failed to generate diff: Branch '" \o b
                   \o "' does not exist locally or on remote",
                "Branch '" \o b \o "' does not exist locally or on remote" }
         /\ RangeCommands = {}
    /\ git.pc = "done" => Cardinality(RangeCommands) = 2

(* main is found locally, feature only as origin/feature: the diff is      *)
(* taken between main and origin/feature                                   *)
C19_Witness ==
  /\ git.pc = "done"
  /\ git.baseRef = BaseBranch
  /\ git.featureRef = Origin(FeatureBranch)
  /\ Fetches(FeatureBranch) = {}
  /\ RemoteLookups(BaseBranch) = {}
  /\ Cardinality(RemoteLookups(FeatureBranch)) = 2
  /\ RangeCommands # {}

(* all three lookups of feature failed *)
BranchNotFound ==
  /\ git.pc = "failed"
  /\ Fetches(FeatureBranch) # {}
  /\ Hits(Fetches(FeatureBranch)) = {}
  /\ RangeCommands = {}

(* the run was started by the action with these inputs *)
Threshold == parseFloat(inputs.aiConfidenceThreshold)

(* a threshold that does not lie in [0, 1] *)
ThresholdOutOfRange == ~(~IsNaN(Threshold) /\ 0 <= Threshold /\ Threshold <= One)

(* an AI strategy whose provider has no API key *)
NoApiKey ==
  /\ inputs.versioningStrategy \in {"ai", "hybrid"}
  /\ \/ inputs.aiProvider = "openai" /\ inputs.openaiApiKey = ""
     \/ inputs.aiProvider = "anthropic" /\ inputs.anthropicApiKey = ""

BadConfiguration ==
  /\ inputs # NoInputs
  /\ \/ ThresholdOutOfRange
     \/ inputs.featureBranch = ""
     \/ inputs.githubToken = ""
     \/ NoApiKey

(* nothing was done: no git command, no provider call, and once run is     *)
(* over it has reported a failure and no result                            *)
FailedBeforeAnyWork ==
  /\ ~git.started
  /\ \A c \in CallIds : calls[c] = IdleCall
  /\ pc \in {"run", "done"}
  /\ pc = "done" => Len(failures) = 1 /\ ~result.returned

(***************************************************************************)
(* C20: configuration errors are detected before any work starts: when the *)
(* AI confidence threshold is outside [0, 1], the feature branch or the    *)
(* GitHub token is missing, or an AI strategy has no usable API key, the   *)
(* run fails with a configuration error before any git command is          *)
(* executed and before any AI provider call is made.                       *)
(***************************************************************************)
C20_ConfigErrorsBeforeAnyWork == BadConfiguration => FailedBeforeAnyWork

(* the same for a threshold that is a number: a threshold below 0 or above *)
(* 1, a missing branch, token or key stops the run before any work         *)
NumericConfigErrorsBeforeAnyWork ==
  (BadConfiguration /\ ~(IsNaN(Threshold) /\ inputs.featureBranch # ""
                          /\ inputs.githubToken # "" /\ ~NoApiKey))
    => FailedBeforeAnyWork

(* the categories of a ChangelogEntry *)
ChangeCategory ==
  { "breaking", "feat", "fix", "perf", "refactor", "docs", "style", "test", "build",
    "ci", "chore", "revert", "deps" }

(***************************************************************************)
(* C21: every ChangelogEntry of a result, made by the conventional         *)
(* classifier or taken from an accepted AI response, has a category of the *)
(* closed set breaking, feat, fix, perf, refactor, docs, style, test,      *)
(* build, ci, chore, revert, deps.                                         *)
(***************************************************************************)
C21_CategoriesAreClosed ==
  /\ \A i \in 1..Len(changeData.entries) :
       changeData.entries[i].category \in ChangeCategory
  /\ \A i \in 1..Len(changelog.unreleased) :
       changelog.unreleased[i].category \in ChangeCategory

(* the entries the conventional classifier makes are of the closed set *)
ConventionalCategoriesAreClosed ==
  (Step3Over /\ ~AIAccepted) =>
    \A i \in 1..Len(changeData.entries) :
      changeData.entries[i].category \in ChangeCategory

(***************************************************************************)
(* VersionAnalyzer: vocabulary of its claims                               *)
(***************************************************************************)
Arg == ver.heap[ver.arg]

Returned == ver.heap[ver.ret]

Did(op) == ver.pc = "done" /\ ver.op = op

(* the prerelease and the build of v, where present, follow the grammar *)
GrammarConformant(v) ==
  /\ v.prerelease.def => IsDottedIdent(v.prerelease.val)
  /\ v.build.def => IsDottedIdent(v.build.val)

(* C22: for every version with grammar-conformant optional prerelease and  *)
(* build, parsing the text formatVersion gives for it, with or without the *)
(* prefix v, succeeds and gives a version equal to it                      *)
C22_RoundTrip ==
  (Did("formatThenParse") /\ GrammarConformant(Arg)) =>
    (~ver.thrown /\ ver.ret # 0 /\ Returned = Arg)

(* a version with prerelease, build and a two-digit patch went through the *)
(* text with the prefix                                                    *)
C22_Witness ==
  /\ Did("formatThenParse") /\ ver.includePrefix
  /\ hasPrerelease(Arg) /\ hasBuild(Arg) /\ Arg.patch = 10
  /\ ver.text[1] = "v" /\ Returned = Arg

(* the core of a version with nothing else *)
Stable(major, minor, patch) ==
  [ major |-> major, minor |-> minor, patch |-> patch,
    prerelease |-> NoString, build |-> NoString ]

(* C23: incrementVersion gives (M+1, 0, 0) for major, (M, m+1, 0) for      *)
(* minor and (M, m, p+1) for patch, each without prerelease and build; for *)
(* none it gives an object equal to its input and distinct from it; the    *)
(* input object is as it was before the call                               *)
C23_IncrementVersion ==
  [][ (ver.pc = "idle" /\ ver'.pc = "done" /\ ver'.op = "incrementVersion") =>
        LET v == ver.heap[ver.arg]
            r == ver'.heap[ver'.ret]
        IN  /\ ver'.arg = ver.arg /\ ver'.heap[ver'.arg] = v
            /\ ver'.ret # ver'.arg
            /\ ver'.bumpType = "major" => r = Stable(v.major + 1, 0, 0)
            /\ ver'.bumpType = "minor" => r = Stable(v.major, v.minor + 1, 0)
            /\ ver'.bumpType = "patch" => r = Stable(v.major, v.minor, v.patch + 1)
            /\ ver'.bumpType = "none" => r = v ]_vars

(* a minor bump of a version with prerelease and build gave a bare core *)
C23_Witness ==
  /\ Did("incrementVersion") /\ ver.bumpType = "minor"
  /\ hasPrerelease(Arg) /\ hasBuild(Arg) /\ Arg.patch # 0
  /\ Returned = Stable(Arg.major, Arg.minor + 1, 0)

(* the prerelease label.n as text *)
Numbered(label, n) == SomeString(label \o <<".">> \o NatToString(n))

(* the prerelease of v is the label followed by a dot and digits *)
IsNumberedOf(v, label) ==
  \E n \in 0..99 : v.prerelease = Numbered(label, n)

NumberOf(v, label) == CHOOSE n \in 0..99 : v.prerelease = Numbered(label, n)

C24_ResetWitness ==
  /\ Did("incrementPrerelease") /\ ver.prereleaseType = sAlpha
  /\ Arg.prerelease \in { SomeString(<<"r", "c", "-", "1">>), Numbered(sBeta, 2) }
  /\ Returned.prerelease = Numbered(sAlpha, 1)

Sign(x) == IF x < 0 THEN 0 - 1 ELSE IF x > 0 THEN 1 ELSE 0

SameCore(a, b) == a.major = b.major /\ a.minor = b.minor /\ a.patch = b.patch

(* the prerelease, or the build, of a version, an empty one counting as none *)
PrereleaseOf(v) == IF hasPrerelease(v) THEN v.prerelease ELSE NoString

BuildOf(v) == IF hasBuild(v) THEN v.build ELSE NoString

SamePrecedence(a, b) == SameCore(a, b) /\ PrereleaseOf(a) = PrereleaseOf(b)

SameVersion(a, b) == SamePrecedence(a, b) /\ BuildOf(a) = BuildOf(b)

(* compare(v, v) = 0, the sign flips when the arguments are swapped, the   *)
(* order is transitive, and a version without prerelease ranks above every *)
(* prerelease of its core                                                  *)
OrdersVersions ==
  Did("compareVersions") =>
    /\ SameVersion(Arg, ver.b) => ver.cmp.ab = 0
    /\ Sign(ver.cmp.ab) = 0 - Sign(ver.cmp.ba)
    /\ (ver.cmp.ab < 0 /\ ver.cmp.bc < 0) => ver.cmp.ac < 0
    /\ (ver.cmp.ab > 0 /\ ver.cmp.bc > 0) => ver.cmp.ac > 0
    /\ (SameCore(Arg, ver.b) /\ ~hasPrerelease(Arg) /\ hasPrerelease(ver.b)) =>
         ver.cmp.ab > 0

(* C25: compareVersions is a strict total order on versions: reflexive,    *)
(* antisymmetric in sign, transitive, 0 only for the same version, and a   *)
(* version without prerelease ranks above every prerelease of its core     *)
C25_StrictTotalOrder ==
  /\ OrdersVersions
  /\ (Did("compareVersions") /\ ver.cmp.ab = 0) => SameVersion(Arg, ver.b)

(* C25 as amended: as above, but compare(a, b) = 0 exactly when a and b    *)
(* agree on major, minor, patch and prerelease; the build metadata is not  *)
(* compared, and versions that compare 0 rank alike against any third      *)
C25_TotalOrderUpToBuild ==
  /\ OrdersVersions
  /\ Did("compareVersions") =>
       /\ ver.cmp.ab = 0 <=> SamePrecedence(Arg, ver.b)
       /\ ver.cmp.ab = 0 => Sign(ver.cmp.ac) = Sign(ver.cmp.bc)

(* two prereleases of one core below its stable version, and two versions  *)
(* that differ in the build only                                           *)
C25_Witness ==
  /\ Did("compareVersions")
  /\ SameCore(Arg, ver.b) /\ SameCore(ver.b, ver.c)
  /\ hasPrerelease(Arg) /\ hasPrerelease(ver.b) /\ ~hasPrerelease(ver.c)
  /\ ver.cmp.ab < 0 /\ ver.cmp.bc < 0 /\ ver.cmp.ac < 0 /\ ver.cmp.ba > 0

C25_BuildIgnored ==
  /\ Did("compareVersions")
  /\ SamePrecedence(Arg, ver.b) /\ BuildOf(Arg) # BuildOf(ver.b)
  /\ ver.cmp.ab = 0

(* C26: promoteToStable returns the core of a version that has a           *)
(* prerelease, without prerelease and build; for a version without one     *)
(* (absent or empty) it throws a VersionError; the version is left as it   *)
(* was in both cases                                                       *)
C26_PromoteToStable ==
  [][ (ver.pc = "idle" /\ ver'.pc = "done" /\ ver'.op = "promoteToStable") =>
        LET v == ver.heap[ver.arg]
        IN  /\ ver'.arg = ver.arg /\ ver'.heap[ver'.arg] = v
            /\ hasPrerelease(v) =>
                 /\ ~ver'.thrown /\ ver'.ret # 0 /\ ver'.ret # ver'.arg
                 /\ ver'.heap[ver'.ret] = Stable(v.major, v.minor, v.patch)
            /\ ~hasPrerelease(v) =>
                 (ver'.thrown /\ ver'.ret = 0 /\ ver'.heap = ver.heap) ]_vars

(* a prerelease with build metadata was promoted to its bare core *)
C26_Witness ==
  /\ Did("promoteToStable") /\ ~ver.thrown
  /\ hasPrerelease(Arg) /\ hasBuild(Arg)
  /\ Returned = Stable(Arg.major, Arg.minor, Arg.patch)

(* promoting a version whose prerelease is the empty string threw *)
C26_ThrowWitness ==
  /\ Did("promoteToStable") /\ ver.thrown
  /\ Arg.prerelease = SomeString(<<>>)

(* C29: the version incrementPrerelease returns ranks above the version it *)
(* was given under compareVersions, for every version and label, also      *)
(* from label.9 to label.10                                                *)
C29_PrereleaseBumpsAreMonotonic ==
  Did("incrementPrerelease") => compareVersions(Returned, Arg, ver.collation) > 0

(* the same for the step from label.9 to label.10 alone *)
C29_NineToTenIsMonotonic ==
  (/\ Did("incrementPrerelease")
   /\ Arg.prerelease = Numbered(ver.prereleaseType, 9)
   /\ Returned.prerelease = Numbered(ver.prereleaseType, 10)) =>
    compareVersions(Returned, Arg, ver.collation) > 0

(* the bumps that do rank above: from a stable version, and from label.1 *)
SmallBumpsAreMonotonic ==
  (/\ Did("incrementPrerelease")
   /\ \/ ~hasPrerelease(Arg)
      \/ Arg.prerelease = Numbered(ver.prereleaseType, 1)) =>
    compareVersions(Returned, Arg, ver.collation) > 0

(***************************************************************************)
(* ReleaseWorkflow.execute: failures                                       *)
(***************************************************************************)
Step1Failures ==
  { "Failed to analyze repository changes: Repository validation failed",
    "Failed to analyze repository changes: Failed to generate diff" }

Step2Failures == { "Failed to analyze version: Invalid semantic version format" }

Step4Failures ==
  { "Failed to update changelog: addUnreleasedEntries",
    "Failed to update changelog: createRelease" }

Step5Failures ==
  { "Failed to create release branch: Failed to create release branch",
    "Failed to create release branch: Failed to commit changes" }

Step3Failed ==
  /\ failures # <<>>
  /\ failures[1] \notin Step1Failures \cup Step2Failures \cup Step4Failures
                           \cup Step5Failures

NoStep2 == ~versionData.def

NoStep3 == calls[1] = IdleCall /\ changeData = NoChangeData

NoStep4 == changelog = EmptyChangelog /\ ~changelogData.def

NoStep5 == releaseBranch = <<>>

(* execute has returned exactly when the workflow is done; a failure is    *)
(* reported once, ends the workflow, leaves the later steps not run and    *)
(* returns the placeholder whose reasoning is the one failure message      *)
FailureShape ==
  /\ result.returned <=> pc = "done"
  /\ Len(failures) <= 1
  /\ (pc = "done" /\ failures = <<>>) => result.success
  /\ failures # <<>> =>
       /\ pc = "done" /\ ~result.success
       /\ result.version = <<"0", ".", "0", ".", "0">>
       /\ result.versionBump = "patch"
       /\ result.commitCount = 0
       /\ result.reasoning = <<failures[1]>>
       /\ failures[1] \in Step1Failures =>
            (~gitData.def /\ NoStep2 /\ NoStep3 /\ NoStep4 /\ NoStep5)
       /\ failures[1] \in Step2Failures =>
            (NoStep2 /\ NoStep3 /\ NoStep4 /\ NoStep5)
       /\ Step3Failed =>
            (/\ config.versioningStrategy = "ai" /\ calls[1].pc = "rejected"
             /\ changeData = NoChangeData /\ NoStep4 /\ NoStep5)
       /\ failures[1] \in Step4Failures => (~changelogData.def /\ NoStep5)

(* C27: execute returns exactly one result and never throws: when a step   *)
(* fails no later step runs, core.setFailed is called exactly once, the    *)
(* result is the placeholder 0.0.0 / patch / 0 commits whose reasoning is  *)
(* the failure message alone, and nothing happens after the return         *)
C27_FailureIsReportedOnce ==
  []FailureShape /\ [][pc = "done" => UNCHANGED vars]_vars

(* a failure of each step, the AI step included, came back as placeholder *)
C27_Witness ==
  /\ pc = "done" /\ Step3Failed /\ result.reasoning = <<failures[1]>>
  /\ gitData.commitCount > 0 /\ result.commitCount = 0
  /\ versionData.versionBump = "major" /\ result.versionBump = "patch"

C27_Step5Witness ==
  /\ pc = "done" /\ failures # <<>> /\ failures[1] \in Step5Failures
  /\ changelogData.def /\ result.reasoning = <<failures[1]>>

(* C28: in every successful result a breaking-change flag of true comes    *)
(* with the version bump major, whatever the strategy and the accepted     *)
(* classifier output                                                       *)
C28_BreakingFlagAgreesWithBump ==
  (pc = "done" /\ result.success /\ result.breakingChanges) =>
    result.versionBump = "major"

(* the same for the results built from the conventional analysis *)
ConventionalFlagAgreesWithBump ==
  (pc = "done" /\ result.success /\ ConventionalPath) =>
    (result.breakingChanges <=> result.versionBump = "major")

(***************************************************************************)
(* AIAnalyzer: concurrent calls                                            *)
(***************************************************************************)
(* the adjusted confidence of call c's own response *)
OwnConfidence(c) ==
  SpecConfidence(LastText(c).confidence.num, Len(LastText(c).reasoning.items),
                 Len(LastText(c).changes.items), Len(calls[c].commits))

(* call c completes with a result in this step *)
Completes(c) == calls[c].pc # "resolved" /\ calls'[c].pc = "resolved"

(* C30: however two calls of analyze on one analyzer interleave, the       *)
(* confidence in each call's result is the adjusted confidence of that     *)
(* call's own response, and the confidence field, which getConfidence      *)
(* returns, holds the value of the call that completed last                *)
C30_ConcurrentCallsKeepTheirConfidence ==
  /\ [](\A c \in CallIds :
          calls[c].pc = "resolved" => calls[c].result.confidence = OwnConfidence(c))
  /\ [][ /\ \A c \in CallIds :
              Completes(c) => confidence' = calls'[c].result.confidence
         /\ (\A c \in CallIds : ~Completes(c)) => confidence' = confidence ]_vars

(* call 1 completed while call 2 was pending, after a backoff wait of its  *)
(* own; call 2 completed later with another confidence, which the field    *)
(* now holds, and the result of call 1 still has its own                   *)
C30_Witness ==
  /\ calls[1].pc = "resolved" /\ calls[2].pc = "resolved"
  /\ calls[1].delays # <<>>
  /\ calls[1].result.confidence # calls[2].result.confidence
  /\ confidence = calls[2].result.confidence
  /\ calls[1].result.confidence = OwnConfidence(1)

=============================================================================
